---- MODULE Spec2Model ----
(***************************************************************************)
(* Observation ErrP experiment (task1_observation_errp_v2.py).             *)
(*                                                                         *)
(* Three specifications over one set of variables:                         *)
(*   SpecSeq    generate_trial_sequence, one call, loop iteration by       *)
(*              iteration;                                                 *)
(*   SpecTrial  ObservationErrPExperiment.run_trial, one call, phase by    *)
(*              phase, for every position range and start index;           *)
(*   Spec       ObservationErrPExperiment.run_experiment, the whole        *)
(*              session, with the keyboard as its environment.             *)
(* error_rate is held as an integer percentage (0.3 is 30); for the rates  *)
(* and lengths used here n * rate / 100 truncated equals Python's          *)
(* int(n * error_rate) on doubles.                                         *)
(***************************************************************************)
EXTENDS Integers, Sequences, FiniteSets, TLC

VARIABLES
    \* ---- generate_trial_sequence: arguments and locals
    n_trials, error_rate, max_consec_errors, max_consec_correct,
    sequence, valid, attempts, warned, gpc,
    \* ---- the session object and the process
    \*   key_buffer   an Escape key press waits in psychopy's event buffer
    \*   output_file  the rows save_trial_data wrote, None before it ran
    \*   n_saves      calls of save_trial_data; win_closes: of win.close()
    \*   clock        the reading get_unix_timestamp returns
    \*   seq_idx      trial_num of the enumerate loops
    config, pc, block_num, seq_idx, trial_sequence, trial_data,
    key_buffer, output_file, n_saves, win_closes, clock,
    \*   target_fill  self.target.fillColor
    \*   events       the screens run_experiment has shown, the sequences it
    \*                has generated and the trials that have returned, in
    \*                order, each as <<kind, block, trial>>
    target_fill, events,
    \* ---- run_trial: arguments and locals
    phase, trial_info, target_idx, possible_positions, cursor_end_idx,
    correct_direction,
    \* ---- config.py: the module's two tables, and the calls of get_config
    \*   calls        one entry per call, in order: the name asked for, the
    \*                exception raised (None when it returned) and the
    \*                configuration returned (None when it raised)
    presets, fixed_params, calls,
    \* ---- the main program
    \*   argv         the command line arguments after the script name
    \*   preset_name  the preset asked for, None before it is known
    \*   exit_status  "none" while the process runs, then "success" (exit
    \*                code 0) or "failure" (uncaught exception)
    argv, preset_name, exit_status,
    \* ---- set by the constructor: self.experiment_start_time
    experiment_start_time,
    \* ---- task2_feedback_errp.py: the script's position and its globals
    \*   log_file     [written, rows]: whether the log was written, and the
    \*                rows in it
    t2pc, trial_num, is_error_trial, results, log_file,
    \* the movement phase of a task2 trial; the horizontal axis is cut into
    \* cells of 0.175, the cursor starts at cell -4 or 4 (x = -0.7, 0.7):
    \*   rotation_angle       the signed angle of the trial, 0 if no error
    \*   side                 the side the cursor starts on
    \*   cursor_x, target_x   cells of cursor_pos[0], target_pos[0]
    \*   boundary_x           cell of the rotation boundary
    \*   rotation_active      the flag of the trial state
    \*   rotation_onset_time  <<>> for None, else <<t>> for the reading t
    \*   trajectory           <<>> while the list is empty, else its last
    \*                        entry alone
    rotation_angle, side, cursor_x, target_x, boundary_x, rotation_active,
    rotation_onset_time, trajectory,
    \* the multi-step observation scripts (task1_observation_errp.py,
    \* src/task1_v2.py, src/task1_psychopy.py, src/errp_game.py):
    \*   script       which of the four scripts runs
    \*   mpc          the script's position
    \*   ep           trial_num / ep of the for loop
    \*   cursor_idx   the cursor's index
    \*   goal_idx     target_idx of these scripts
    \*   movements    records appended in the current trial or episode,
    \*                counted up to MaxCounted
    \*   reached      the flag of the episode loop
    \*   logged       len(results), counted up to MaxCounted
    \*   last_record  the record appended last
    \*   log_saved    whether the log file was written
    \*   streak       how many passes of the current movement loop, counted
    \*                back from the last one, drew a correct move (at most
    \*                N_POSITIONS - 1 are counted); it records the draws
    \*                and is read by no step
    script, mpc, ep, cursor_idx, goal_idx, movements, reached, logged,
    last_record, log_saved, streak

genVars == <<n_trials, error_rate, max_consec_errors, max_consec_correct,
             sequence, valid, attempts, warned, gpc>>
sessVars == <<config, pc, block_num, seq_idx, trial_sequence, trial_data,
              key_buffer, output_file, n_saves, win_closes, clock, target_fill, events>>
trialVars == <<phase, trial_info, target_idx, possible_positions,
               cursor_end_idx, correct_direction>>
cfgVars == <<presets, fixed_params, calls>>
mainVars == <<argv, preset_name, exit_status>>
\* what the steps of the generator, the session and the trial never write
rotVars == <<rotation_angle, side, cursor_x, target_x, boundary_x,
             rotation_active, rotation_onset_time, trajectory>>
task2Vars == <<t2pc, trial_num, is_error_trial, results, log_file, rotVars>>
multiVars == <<script, mpc, ep, cursor_idx, goal_idx, movements, reached,
               logged, last_record, log_saved, streak>>
otherVars == <<mainVars, cfgVars, experiment_start_time, task2Vars,
               multiVars>>
vars == <<genVars, sessVars, trialVars, otherVars>>

\* ------------------------------------------------------------------ bounds
MaxSeqLen == 4          \* longest sequence generated in SpecSeq
MaxRun == 2             \* largest run-length limit tried in SpecSeq
MaxPositions == 20      \* largest n_positions tried in SpecTrial
MaxBlocks == 2          \* session: n_blocks of the small configurations
MaxTrialsPerBlock == 2  \* session: n_trials_per_block of the small ones
MaxPractice == 2        \* session: n_practice_trials of the small ones
MaxClock == 2           \* SpecTime: readings of the system clock, 0..MaxClock

\* error rates tried, in percent
ErrorRates == {0, 30, 50, 100}

None == "None"

\* ------------------------------------------------- generate_trial_sequence
max_attempts == 1000

TrialTypes == {"correct", "error"}

Count(seq, v) == Cardinality({i \in DOMAIN seq : seq[i] = v})

\* int(n_trials * error_rate): truncation of the product
NErrors(n, rate) == (n * rate) \div 100

\* ['correct'] * n_correct + ['error'] * n_errors
InitialSequence(n, rate) ==
    LET ne == NErrors(n, rate)
        nc == n - ne
    IN  [i \in 1..n |-> IF i <= nc THEN "correct" ELSE "error"]

\* Shuffle as random.choices would do it: every entry drawn afresh
Shuffle_Resample(seq) == [DOMAIN seq -> TrialTypes]

\* random.shuffle(sequence): any arrangement of the same entries
Shuffle(seq) ==
    {s \in [DOMAIN seq -> TrialTypes] :
        \A v \in TrialTypes : Count(s, v) = Count(seq, v)}

\* the for loop over the sequence with its two counters and early break
RECURSIVE ScanFrom(_, _, _, _, _, _)
ScanFrom(seq, i, error_count, correct_count, maxE, maxC) ==
    IF i > Len(seq) THEN TRUE
    ELSE IF seq[i] = "error"
         THEN IF error_count + 1 > maxE THEN FALSE
              ELSE ScanFrom(seq, i + 1, error_count + 1, 0, maxE, maxC)
         ELSE IF correct_count + 1 > maxC THEN FALSE
              ELSE ScanFrom(seq, i + 1, 0, correct_count + 1, maxE, maxC)

\* the scan with both limits compared one too high
CheckConstraints_OffByOne(seq, maxE, maxC) ==
    ScanFrom(seq, 1, 0, 0, maxE + 1, maxC + 1)

CheckConstraints(seq, maxE, maxC) == ScanFrom(seq, 1, 0, 0, maxE, maxC)

\* the loop test with the budget compared one too high
LoopCondition_OffByOne == ~valid /\ attempts <= max_attempts

\* while not valid and attempts < max_attempts
LoopCondition == ~valid /\ attempts < max_attempts

\* if attempts >= max_attempts: print("Warning: ...")
WarningCondition == attempts >= max_attempts

GenEnter ==
    /\ gpc = "entry"
    /\ sequence' \in Shuffle(InitialSequence(n_trials, error_rate))
    /\ valid' = FALSE
    /\ attempts' = 0
    /\ gpc' = "loop"
    /\ UNCHANGED <<n_trials, error_rate, max_consec_errors,
                   max_consec_correct, warned>>
    /\ UNCHANGED <<sessVars, trialVars, otherVars>>

\* one iteration of the while loop: the scan, then the re-shuffle if it failed
GenIterate ==
    /\ gpc = "loop"
    /\ LoopCondition
    /\ LET ok == CheckConstraints(sequence, max_consec_errors,
                                  max_consec_correct)
       IN  /\ valid' = ok
           /\ IF ok
              THEN UNCHANGED <<sequence, attempts>>
              ELSE /\ sequence' \in Shuffle(sequence)
                   /\ attempts' = attempts + 1
    /\ UNCHANGED <<n_trials, error_rate, max_consec_errors,
                   max_consec_correct, warned, gpc>>
    /\ UNCHANGED <<sessVars, trialVars, otherVars>>

GenReturn ==
    /\ gpc = "loop"
    /\ ~LoopCondition
    /\ warned' = WarningCondition
    /\ gpc' = "done"
    /\ UNCHANGED <<n_trials, error_rate, max_consec_errors,
                   max_consec_correct, sequence, valid, attempts>>
    /\ UNCHANGED <<sessVars, trialVars, otherVars>>

\* the generator is not running (Spec, SpecTrial)
GenIdle ==
    /\ n_trials = 0 /\ error_rate = 0
    /\ max_consec_errors = 0 /\ max_consec_correct = 0
    /\ sequence = <<>> /\ valid = FALSE /\ attempts = 0
    /\ warned = FALSE /\ gpc = "idle"

\* the session and the trial are not running (SpecSeq)
SessIdle ==
    /\ config = None /\ pc = "idle" /\ block_num = 0 /\ seq_idx = 0
    /\ trial_sequence = <<>> /\ trial_data = <<>> /\ key_buffer = FALSE
    /\ output_file = None /\ n_saves = 0 /\ win_closes = 0 /\ clock = 0
    /\ experiment_start_time = 0
    /\ target_fill = None /\ events = <<>>

\* no trial of task2 has been set up
RotIdle ==
    /\ rotation_angle = 0 /\ side = None /\ cursor_x = 0 /\ target_x = 0
    /\ boundary_x = 0 /\ rotation_active = FALSE
    /\ rotation_onset_time = <<>> /\ trajectory = <<>>

Task2Idle ==
    /\ t2pc = "idle" /\ trial_num = 0 /\ is_error_trial = FALSE
    /\ results = <<>> /\ log_file = [written |-> FALSE, rows |-> <<>>]
    /\ RotIdle

MultiIdle ==
    /\ script = None /\ mpc = "idle" /\ ep = 0 /\ cursor_idx = None
    /\ goal_idx = None /\ movements = 0 /\ reached = FALSE /\ logged = 0
    /\ last_record = None /\ log_saved = FALSE /\ streak = 0

MainIdle == argv = <<>> /\ preset_name = None /\ exit_status = "none"

CfgIdle == presets = None /\ fixed_params = None /\ calls = <<>>

TrialIdle ==
    /\ phase = "idle" /\ trial_info = None /\ target_idx = None
    /\ possible_positions = None /\ cursor_end_idx = None
    /\ correct_direction = None

InitSeq ==
    /\ n_trials \in 0..MaxSeqLen
    /\ error_rate \in ErrorRates
    /\ max_consec_errors \in 1..MaxRun
    /\ max_consec_correct \in 1..MaxRun
    /\ sequence = <<>> /\ valid = FALSE /\ attempts = 0
    /\ warned = FALSE /\ gpc = "entry"
    /\ SessIdle /\ TrialIdle /\ CfgIdle /\ MainIdle /\ Task2Idle /\ MultiIdle

NextSeq == GenEnter \/ GenIterate \/ GenReturn

SpecSeq == InitSeq /\ [][NextSeq]_vars /\ WF_vars(NextSeq)

\* ------------------------------------------------------------ configuration
\* config.py FIXED_PARAMS; a colour is held by its name
FIXED_PARAMS ==
    [n_positions |-> 20, start_position_idx |-> 10,
     max_consecutive_errors |-> 3, max_consecutive_correct |-> 5,
     window_size |-> <<1920, 1080>>, fullscreen |-> TRUE,
     cursor_radius |-> 15, target_radius |-> 20, fixation_size |-> 30,
     background_color |-> "black", cursor_color |-> "white",
     target_color |-> "green", target_reached_color |-> "yellow",
     fixation_color |-> "white", text_color |-> "white"]

\* config.py PRESETS['debug']: the entries the control flow reads
DebugPreset ==
    [n_practice_trials |-> 3, n_blocks |-> 1, n_trials_per_block |-> 10,
     error_rate |-> 30, show_target_reached |-> TRUE]

\* one entry of PRESETS; durations in milliseconds, error_rate in percent
Preset(nm, ds, pr, bl, tr, imin, imax, tg, mv, po, br, rate, sh, rd) ==
    [name |-> nm, description |-> ds,
     n_practice_trials |-> pr, n_blocks |-> bl, n_trials_per_block |-> tr,
     iti_min |-> imin, iti_max |-> imax, target_presentation |-> tg,
     movement_duration |-> mv, post_movement |-> po,
     break_duration |-> br, error_rate |-> rate,
     show_target_reached |-> sh, target_reached_duration |-> rd]

\* config.py PRESETS
PRESETS ==
    [paper |-> Preset("Paper Standard",
                      "Original Chavarriaga & Millan (2010) parameters",
                      20, 3, 80, 1500, 2500, 500, 500, 500, 60000, 25,
                      FALSE, 0),
     quick |-> Preset("Quick Session", "Shortened version (~10 minutes)",
                      10, 2, 40, 1000, 1500, 500, 500, 300, 30000, 25,
                      FALSE, 0),
     full |-> Preset("Full Session",
                     "Extended session for maximum data collection",
                     20, 4, 60, 1000, 1500, 500, 500, 500, 30000, 25,
                     FALSE, 0),
     debug |-> DebugPreset @@
               Preset("Debug Mode", "Minimal trials for testing",
                      3, 1, 10, 500, 800, 300, 300, 200, 5000, 30,
                      TRUE, 500),
     v1_style |-> Preset("Version 1 Style",
                         "Original implementation with success feedback",
                         15, 2, 30, 500, 500, 1000, 800, 0, 30000, 20,
                         TRUE, 1000)]

\* a merge that takes the values of the paper preset whatever was asked for
Merge_Paper(fixed, preset) == PRESETS.paper @@ fixed

\* config = FIXED_PARAMS.copy(); config.update(preset)
Merge(fixed, preset) == preset @@ fixed

instruction_time == 120000

\* the estimate with a break counted after every block, the last one too
estimate_duration_BreakPerBlock(cfg) ==
    LET trial_duration ==
            (cfg.iti_min + cfg.iti_max)
            + 2 * (cfg.target_presentation + cfg.movement_duration
                   + cfg.post_movement)
            + (IF cfg.show_target_reached
               THEN 2 * cfg.target_reached_duration ELSE 0)
        practice_time == cfg.n_practice_trials * trial_duration
        experimental_time == cfg.total_trials * trial_duration
        break_time == 2 * cfg.n_blocks * cfg.break_duration
    IN  <<practice_time + experimental_time + break_time
              + 2 * instruction_time,
          2 * 60000>>

\* estimate_duration(cfg), total_seconds / 60, as the fraction
\* <<numerator, denominator>> of twice the milliseconds over twice 60000,
\* so that the mean of iti_min and iti_max stays whole
estimate_duration(cfg) ==
    LET trial_duration ==
            (cfg.iti_min + cfg.iti_max)
            + 2 * (cfg.target_presentation + cfg.movement_duration
                   + cfg.post_movement)
            + (IF cfg.show_target_reached
               THEN 2 * cfg.target_reached_duration ELSE 0)
        practice_time == cfg.n_practice_trials * trial_duration
        experimental_time == cfg.total_trials * trial_duration
        break_time == 2 * (cfg.n_blocks - 1) * cfg.break_duration
    IN  <<practice_time + experimental_time + break_time
              + 2 * instruction_time,
          2 * 60000>>

\* the derived values with total_trials taken as the trials of one block
WithDerived_OneBlock(merged) ==
    LET c == [total_trials |-> merged.n_trials_per_block] @@ merged
    IN  [estimated_duration_minutes |-> estimate_duration(c)] @@ c

\* get_config: the derived values written into the merged dict
WithDerived(merged) ==
    LET c == [total_trials |->
                 merged.n_blocks * merged.n_trials_per_block] @@ merged
    IN  [estimated_duration_minutes |-> estimate_duration(c)] @@ c

\* an unknown name resolved as the default preset, 'quick'
get_config_Default(preset) ==
    [raised |-> None,
     value |-> WithDerived(Merge(fixed_params,
                  presets[IF preset \in DOMAIN presets THEN preset
                          ELSE "quick"]))]

\* get_config(preset): ValueError for a name that is not in PRESETS, else
\* the merged dict with its derived values
get_config(preset) ==
    IF preset \notin DOMAIN presets
    THEN [raised |-> "ValueError", value |-> None]
    ELSE [raised |-> None,
          value |-> WithDerived(Merge(fixed_params, presets[preset]))]

\* the merge written into FIXED_PARAMS itself
FixedAfterResolve_Aliased(fixed, cfg) == cfg

\* FIXED_PARAMS after a call that returned cfg: the updates went to the
\* copy made by FIXED_PARAMS.copy(), the table keeps its entries
FixedAfterResolve(fixed, cfg) == fixed

\* configurations of the session: the debug preset, and small ones
SmallPresets ==
    [n_practice_trials : 0..MaxPractice, n_blocks : 1..MaxBlocks,
     n_trials_per_block : 1..MaxTrialsPerBlock,
     error_rate : {0, 50}, show_target_reached : BOOLEAN]

\* a position range in which the target can be one step from the start
SmallPositions == [n_positions |-> 3, start_position_idx |-> 1]

SessionConfigs ==
    {Merge(FIXED_PARAMS, DebugPreset)}
    \cup {Merge(FIXED_PARAMS, p) : p \in SmallPresets}
    \cup {Merge(SmallPositions @@ FIXED_PARAMS, p) : p \in SmallPresets}

\* exp_info as returned by get_subject_info
exp_info == [SubjectID |-> "S01", SessionDate |-> "2026-01-01",
             SessionNumber |-> 1]

\* ------------------------------------------------------------------ helpers
\* generate_trial_sequence as its callers see it: what it can return
TrialSequences(n, rate, maxE, maxC) == Shuffle(InitialSequence(n, rate))

Abs(x) == IF x < 0 THEN 0 - x ELSE x

min_distance == 3

\* the distance test written with > in place of >=
PossiblePositions_Strict(current_pos, n, dist) ==
    LET far == {i \in 0..(n - 1) : Abs(i - current_pos) > dist}
    IN  IF far = {} THEN {i \in 0..(n - 1) : i # current_pos} ELSE far

\* the fallback taken over every index, the current one included
PossiblePositions_FallbackAll(current_pos, n, dist) ==
    LET far == {i \in 0..(n - 1) : Abs(i - current_pos) >= dist}
    IN  IF far = {} THEN 0..(n - 1) ELSE far

\* every index but the current one, whatever the distance asked for
PossiblePositions_Adjacent(current_pos, n, dist) ==
    {i \in 0..(n - 1) : i # current_pos}

\* possible_positions of generate_target_position, with its fallback
PossiblePositions(current_pos, n, dist) ==
    LET far == {i \in 0..(n - 1) : Abs(i - current_pos) >= dist}
    IN  IF far = {} THEN {i \in 0..(n - 1) : i # current_pos} ELSE far

\* an error direction off the axis, reported as its own subtype
determine_error_direction_Perpendicular(dir) == <<"up", "perpendicular">>

\* an error direction that repeats the correct one
determine_error_direction_Same(dir) == <<dir, "opposite">>

determine_error_direction(dir) ==
    IF dir = "right" THEN <<"left", "opposite">> ELSE <<"right", "opposite">>

\* the correct step with its two branches exchanged
CorrectStep_Swapped(target, start) ==
    IF target > start THEN <<"left", start - 1>> ELSE <<"right", start + 1>>

\* if target_idx > cursor_start_idx: right, start + 1; else: left, start - 1
CorrectStep(target, start) ==
    IF target > start THEN <<"right", start + 1>> ELSE <<"left", start - 1>>

\* the end index left as computed, not forced into the range
Clamp_None(idx, n) == idx

\* max(0, min(n_positions - 1, idx))
Clamp(idx, n) ==
    LET lo == IF n - 1 < idx THEN n - 1 ELSE idx
    IN  IF lo < 0 THEN 0 ELSE lo

\* self.positions[i] of generate_positions, as the fraction <<num, den>>:
\* -usable_width/2 + i * (usable_width / (n_positions - 1)), usable 1720
PositionX(i, n) == <<1720 * i - 860 * (n - 1), n - 1>>

\* list indexing self.positions[i] of a list of n elements: an index in
\* -n..n-1 is accepted, a negative one counts from the end, any other
\* raises IndexError
IndexOK(i, n) == (0 - n) <= i /\ i < n

PyIndex(i, n) == IF i < 0 THEN i + n ELSE i

\* a reading counted from the reading taken when the session was constructed
get_unix_timestamp_Elapsed == clock - experiment_start_time

\* get_unix_timestamp(): time.time(), the reading of the system clock
get_unix_timestamp == clock

Terminated == pc \in {"done", "quit", "crashed"}

\* the operator presses Escape: the key waits in the event buffer
PressEscape ==
    /\ ~Terminated
    /\ pc # "idle"
    /\ ~key_buffer
    /\ key_buffer' = TRUE
    /\ UNCHANGED <<config, pc, block_num, seq_idx, trial_sequence,
                   trial_data, output_file, n_saves, win_closes, clock, target_fill, events>>
    /\ UNCHANGED <<otherVars, genVars, trialVars>>

\* ---------------------------------------------------------------- run_trial
\* the order with the post-movement hold and the feedback left out
PhaseAfter_HoldSkipped(p, fb) ==
    CASE p = "start" -> "iti"
      [] p = "iti" -> "target"
      [] p = "target" -> "movement"
      [] p = "movement" -> "animate"
      [] p = "animate" -> "end"
      [] p = "post" -> IF fb THEN "feedback" ELSE "end"
      [] p = "feedback" -> "reset"
      [] p = "reset" -> "end"
      [] p = "end" -> "returned"

\* the order of run_trial's statements: the phase that follows phase p when
\* the trial goes on; fb is the outcome of the feedback condition
PhaseAfter(p, fb) ==
    CASE p = "start" -> "iti"
      [] p = "iti" -> "target"
      [] p = "target" -> "movement"
      [] p = "movement" -> "animate"
      [] p = "animate" -> "post"
      [] p = "post" -> IF fb THEN "feedback" ELSE "end"
      [] p = "feedback" -> "reset"
      [] p = "reset" -> "end"
      [] p = "end" -> "returned"

\* the entries of a sequence numbered from 0
TrialNumber_FromZero(i) == i - 1

\* for trial_num, trial_type in enumerate(trial_sequence, 1): the number
\* handed to run_trial with the i-th entry of the sequence
TrialNumber(i) == i

\* trial_info = {...}; the escape check; trial_start_time
TrialStart ==
    /\ phase = "start"
    /\ LET info == [subject_id |-> exp_info.SubjectID,
                    session_date |-> exp_info.SessionDate,
                    session_num |-> exp_info.SessionNumber,
                    block_num |-> block_num,
                    trial_num |-> TrialNumber(seq_idx),
                    trial_type |-> trial_sequence[seq_idx],
                    error_type |-> "none",
                    response_key |-> "none",
                    response_time |-> None]
       IN  IF key_buffer
           THEN \* self.cleanup(); core.quit()
                /\ win_closes' = win_closes + 1
                /\ pc' = "quit"
                /\ phase' = "idle"
                /\ trial_info' = None
                /\ key_buffer' = FALSE
           ELSE /\ trial_info' =
                      info @@ [trial_start_time |-> get_unix_timestamp]
                /\ phase' = PhaseAfter("start", FALSE)
                /\ UNCHANGED <<win_closes, pc, key_buffer>>
    /\ UNCHANGED <<config, block_num, seq_idx, trial_sequence, trial_data,
                   output_file, n_saves, clock, target_fill, events>>
    /\ UNCHANGED <<target_idx, possible_positions, cursor_end_idx,
                   correct_direction>>
    /\ UNCHANGED <<otherVars, genVars>>

\* PHASE 1: fixation for the inter-trial interval
PhaseITI ==
    /\ phase = "iti"
    /\ phase' = PhaseAfter("iti", FALSE)
    /\ UNCHANGED <<trial_info, target_idx, possible_positions,
                   cursor_end_idx, correct_direction>>
    /\ UNCHANGED <<otherVars, genVars, sessVars>>

\* PHASE 2: the target is chosen and shown
PhaseTarget ==
    /\ phase = "target"
    /\ LET start == config.start_position_idx
           n == config.n_positions
           possible == PossiblePositions(start, n, min_distance)
       IN  /\ possible_positions' = possible
           /\ IF possible = {} \/ ~IndexOK(start, n)
              THEN \* random.choice([]) or self.positions[cursor_start_idx]
                   \* raises IndexError
                   /\ pc' = "crashed"
                   /\ phase' = "idle"
                   /\ UNCHANGED <<target_idx, trial_info>>
              ELSE /\ target_idx' \in possible
                   /\ trial_info' = trial_info @@
                        [cursor_start |-> PositionX(PyIndex(start, n), n),
                         target_position |-> PositionX(target_idx', n),
                         target_onset_time |-> get_unix_timestamp]
                   /\ phase' = PhaseAfter("target", FALSE)
                   /\ UNCHANGED pc
    /\ UNCHANGED <<cursor_end_idx, correct_direction>>
    /\ UNCHANGED <<config, block_num, seq_idx, trial_sequence, trial_data,
                   key_buffer, output_file, n_saves, win_closes, clock, target_fill, events>>
    /\ UNCHANGED <<otherVars, genVars>>

\* PHASE 3: direction and end index; the animation starts
PhaseMovement ==
    /\ phase = "movement"
    /\ LET start == config.start_position_idx
           n == config.n_positions
           step == CorrectStep(target_idx, start)
           dir == step[1]
           correct_end_idx == step[2]
           isError == trial_info.trial_type = "error"
           det == determine_error_direction(dir)
           actual == IF isError THEN det[1] ELSE dir
           endIdx == IF isError
                     THEN (IF actual = "right" THEN start + 1 ELSE start - 1)
                     ELSE correct_end_idx
           clamped == Clamp(endIdx, n)
       IN  /\ correct_direction' = dir
           /\ cursor_end_idx' = clamped
           /\ trial_info' =
                [trial_info EXCEPT
                    !.error_type = IF isError THEN det[2] ELSE @] @@
                [movement_direction |-> actual,
                 cursor_end |-> PositionX(clamped, n),
                 movement_onset_time |-> get_unix_timestamp]
    /\ phase' = PhaseAfter("movement", FALSE)
    /\ UNCHANGED <<target_idx, possible_positions>>
    /\ UNCHANGED <<otherVars, genVars, sessVars>>

\* the feedback shown whenever it is switched on, wherever the cursor ends
FeedbackCondition_ShowOnly == config.show_target_reached

\* if self.config['show_target_reached'] and cursor_end_idx == target_idx
FeedbackCondition ==
    config.show_target_reached /\ cursor_end_idx = target_idx

\* PHASE 3, the frames of the animation are over: movement_end_time
PhaseAnimate ==
    /\ phase = "animate"
    /\ trial_info' =
          trial_info @@ [movement_end_time |-> get_unix_timestamp]
    /\ phase' = PhaseAfter("animate", FALSE)
    /\ UNCHANGED <<target_idx, possible_positions, cursor_end_idx,
                   correct_direction>>
    /\ UNCHANGED <<otherVars, genVars, sessVars>>

\* PHASE 4: the cursor is held at its end index, then the condition of
\* PHASE 5 is evaluated
PhasePost ==
    /\ phase = "post"
    /\ phase' = PhaseAfter("post", FeedbackCondition)
    /\ UNCHANGED <<trial_info, target_idx, possible_positions,
                   cursor_end_idx, correct_direction>>
    /\ UNCHANGED <<otherVars, genVars, sessVars>>

\* PHASE 5: the target takes the reached colour, TARGET REACHED is drawn
PhaseFeedback ==
    /\ phase = "feedback"
    /\ target_fill' = config.target_reached_color
    /\ phase' = PhaseAfter("feedback", TRUE)
    /\ UNCHANGED <<trial_info, target_idx, possible_positions,
                   cursor_end_idx, correct_direction>>
    /\ UNCHANGED <<config, pc, block_num, seq_idx, trial_sequence,
                   trial_data, key_buffer, output_file, n_saves, win_closes,
                   clock, events>>
    /\ UNCHANGED <<otherVars, genVars>>

\* PHASE 5: after target_reached_duration the colour is reset
PhaseFeedbackReset ==
    /\ phase = "reset"
    /\ target_fill' = config.target_color
    /\ phase' = PhaseAfter("reset", TRUE)
    /\ UNCHANGED <<trial_info, target_idx, possible_positions,
                   cursor_end_idx, correct_direction>>
    /\ UNCHANGED <<config, pc, block_num, seq_idx, trial_sequence,
                   trial_data, key_buffer, output_file, n_saves, win_closes,
                   clock, events>>
    /\ UNCHANGED <<otherVars, genVars>>

\* trial_end_time; return trial_info
TrialEnd ==
    /\ phase = "end"
    /\ trial_info' = trial_info @@ [trial_end_time |-> get_unix_timestamp]
    /\ phase' = PhaseAfter("end", FALSE)
    /\ UNCHANGED <<target_idx, possible_positions, cursor_end_idx,
                   correct_direction>>
    /\ UNCHANGED <<otherVars, genVars, sessVars>>

RunTrial ==
    \/ TrialStart \/ PhaseITI \/ PhaseTarget \/ PhaseMovement
    \/ PhaseAnimate \/ PhasePost \/ PhaseFeedback \/ PhaseFeedbackReset
    \/ TrialEnd

\* run_trial called once, for every position range and start index
InitTrial ==
    /\ GenIdle /\ CfgIdle /\ MainIdle /\ Task2Idle /\ MultiIdle
    /\ \E n \in 2..MaxPositions, s \in 0..(MaxPositions - 1),
          show \in BOOLEAN :
         /\ s < n
         /\ config = Merge([n_positions |-> n, start_position_idx |-> s]
                               @@ FIXED_PARAMS,
                           [DebugPreset EXCEPT !.show_target_reached = show])
    /\ pc = "run_trial"
    /\ block_num = 1 /\ seq_idx = 1
    /\ trial_sequence \in {<<"correct">>, <<"error">>}
    /\ trial_data = <<>> /\ key_buffer = FALSE /\ output_file = None
    /\ n_saves = 0 /\ win_closes = 0 /\ clock = 0
    /\ experiment_start_time = 0
    /\ target_fill = config.target_color /\ events = <<>>
    /\ phase = "start" /\ trial_info = None /\ target_idx = None
    /\ possible_positions = None /\ cursor_end_idx = None
    /\ correct_direction = None

NextTrial == RunTrial \/ PressEscape

SpecTrial == InitTrial /\ [][NextTrial]_vars

\* ----------------------------------------------------------- the session
\* what the record list of this model keeps of a returned trial_info: the
\* fields fixed by the trial's place in the session, and the times the trial
\* began and ended. The position fields and the inner times of a record are
\* those of its own trial (SpecTrial, SpecTime).
Stored(info) ==
    [f \in {"subject_id", "session_date", "session_num", "block_num",
            "trial_num", "trial_type", "error_type", "response_key",
            "response_time", "trial_start_time", "trial_end_time"}
        |-> info[f]]

ClearTrialLocals ==
    /\ phase' = "idle" /\ trial_info' = None /\ target_idx' = None
    /\ possible_positions' = None /\ cursor_end_idx' = None
    /\ correct_direction' = None

\* run_experiment: show_instructions(is_practice=False); every screen ends
\* in event.waitKeys, which empties the event buffer before it waits
ShowInstructions ==
    /\ pc = "run_experiment"
    /\ key_buffer' = FALSE
    /\ pc' = "run_practice_block"
    /\ events' = Append(events, <<"instructions", 0, 0>>)
    /\ UNCHANGED <<config, block_num, seq_idx, trial_sequence, trial_data,
                   output_file, n_saves, win_closes, clock, target_fill>>
    /\ UNCHANGED <<otherVars, genVars, trialVars>>

\* run_practice_block: instructions, then the practice sequence
PracticeStart ==
    /\ pc = "run_practice_block"
    /\ key_buffer' = FALSE
    /\ trial_sequence' \in TrialSequences(config.n_practice_trials,
                                          config.error_rate,
                                          config.max_consecutive_errors,
                                          config.max_consecutive_correct)
    /\ seq_idx' = 1
    /\ block_num' = 0
    /\ pc' = "practice_loop"
    /\ events' = events \o <<<<"practice_instructions", 0, 0>>,
                            <<"sequence", 0, 0>>>>
    /\ UNCHANGED <<config, trial_data, output_file, n_saves, win_closes,
                   clock, target_fill>>
    /\ UNCHANGED <<otherVars, genVars, trialVars>>

\* for trial_num, trial_type in enumerate(trial_sequence, 1): run_trial(...)
PracticeCall ==
    /\ pc = "practice_loop" /\ phase = "idle"
    /\ seq_idx <= Len(trial_sequence)
    /\ phase' = "start"
    /\ UNCHANGED <<trial_info, target_idx, possible_positions,
                   cursor_end_idx, correct_direction>>
    /\ UNCHANGED <<otherVars, genVars, sessVars>>

\* run_trial has returned; its result is not used
PracticeReturn ==
    /\ pc = "practice_loop" /\ phase = "returned"
    /\ seq_idx' = seq_idx + 1
    /\ ClearTrialLocals
    /\ events' = Append(events, <<"trial", block_num, seq_idx>>)
    /\ UNCHANGED <<config, pc, block_num, trial_sequence, trial_data,
                   key_buffer, output_file, n_saves, win_closes, clock, target_fill>>
    /\ UNCHANGED <<otherVars, genVars>>

\* "Practice Complete!", waitKeys; run_experiment enters its block loop
PracticeComplete ==
    /\ pc = "practice_loop" /\ phase = "idle"
    /\ seq_idx > Len(trial_sequence)
    /\ key_buffer' = FALSE
    /\ block_num' = 1
    /\ pc' = "block_head"
    /\ events' = Append(events, <<"practice_complete", 0, 0>>)
    /\ UNCHANGED <<config, seq_idx, trial_sequence, trial_data,
                   output_file, n_saves, win_closes, clock, target_fill>>
    /\ UNCHANGED <<otherVars, genVars, trialVars>>

\* for block_num in range(1, n_blocks + 1): sequence, block start message
BlockHead ==
    /\ pc = "block_head"
    /\ IF block_num <= config.n_blocks
       THEN /\ trial_sequence' \in
                  TrialSequences(config.n_trials_per_block,
                                 config.error_rate,
                                 config.max_consecutive_errors,
                                 config.max_consecutive_correct)
            /\ key_buffer' = FALSE
            /\ seq_idx' = 1
            /\ events' = events \o <<<<"sequence", block_num, 0>>,
                                     <<"block_start", block_num, 0>>>>
            /\ pc' = "trial_loop"
       ELSE /\ pc' = "completion"
            /\ UNCHANGED <<trial_sequence, key_buffer, seq_idx, events>>
    /\ UNCHANGED <<config, block_num, trial_data, output_file, n_saves,
                   win_closes, clock, target_fill>>
    /\ UNCHANGED <<otherVars, genVars, trialVars>>

\* trial_data = self.run_trial(trial_num, block_num, trial_type)
BlockCall ==
    /\ pc = "trial_loop" /\ phase = "idle"
    /\ seq_idx <= Len(trial_sequence)
    /\ phase' = "start"
    /\ UNCHANGED <<trial_info, target_idx, possible_positions,
                   cursor_end_idx, correct_direction>>
    /\ UNCHANGED <<otherVars, genVars, sessVars>>

\* self.trial_data.append(trial_data)
BlockReturn ==
    /\ pc = "trial_loop" /\ phase = "returned"
    /\ trial_data' = Append(trial_data, Stored(trial_info))
    /\ seq_idx' = seq_idx + 1
    /\ ClearTrialLocals
    /\ events' = Append(events, <<"trial", block_num, seq_idx>>)
    /\ UNCHANGED <<config, pc, block_num, trial_sequence, key_buffer,
                   output_file, n_saves, win_closes, clock, target_fill>>
    /\ UNCHANGED <<otherVars, genVars>>

\* a break after every block, the last one too
BreakCondition_Always == block_num <= config.n_blocks

\* if block_num < self.config['n_blocks']
BreakCondition == block_num < config.n_blocks

\* the block's trials are over: show_break_screen (waitKeys) unless this is
\* the last block; next block
BlockEnd ==
    /\ pc = "trial_loop" /\ phase = "idle"
    /\ seq_idx > Len(trial_sequence)
    /\ IF BreakCondition
       THEN /\ key_buffer' = FALSE
            /\ events' = Append(events, <<"break", block_num, 0>>)
       ELSE UNCHANGED <<key_buffer, events>>
    /\ block_num' = block_num + 1
    /\ pc' = "block_head"
    /\ UNCHANGED <<config, seq_idx, trial_sequence, trial_data,
                   output_file, n_saves, win_closes, clock, target_fill>>
    /\ UNCHANGED <<otherVars, genVars, trialVars>>

\* show_completion_message
Completion ==
    /\ pc = "completion"
    /\ pc' = "save"
    /\ events' = Append(events, <<"completion", 0, 0>>)
    /\ UNCHANGED <<config, block_num, seq_idx, trial_sequence, trial_data,
                   key_buffer, output_file, n_saves, win_closes, clock, target_fill>>
    /\ UNCHANGED <<otherVars, genVars, trialVars>>

\* save_trial_data(self.output_filename, self.trial_data, self.exp_info)
SaveTrialData ==
    /\ pc = "save"
    /\ output_file' = trial_data
    /\ n_saves' = n_saves + 1
    /\ pc' = "cleanup"
    /\ UNCHANGED <<config, block_num, seq_idx, trial_sequence, trial_data,
                   key_buffer, win_closes, clock, target_fill, events>>
    /\ UNCHANGED <<otherVars, genVars, trialVars>>

\* self.cleanup(), then core.quit() of the main program
Cleanup ==
    /\ pc = "cleanup"
    /\ win_closes' = win_closes + 1
    /\ pc' = "done"
    /\ UNCHANGED <<config, block_num, seq_idx, trial_sequence, trial_data,
                   key_buffer, output_file, n_saves, clock, target_fill, events>>
    /\ UNCHANGED <<otherVars, genVars, trialVars>>

Init ==
    /\ GenIdle /\ CfgIdle /\ MainIdle /\ Task2Idle /\ MultiIdle
    /\ config \in SessionConfigs
    /\ pc = "run_experiment"
    /\ block_num = 0 /\ seq_idx = 0 /\ trial_sequence = <<>>
    /\ trial_data = <<>> /\ key_buffer = FALSE /\ output_file = None
    /\ n_saves = 0 /\ win_closes = 0 /\ clock = 0
    /\ experiment_start_time = 0
    /\ target_fill = config.target_color /\ events = <<>>
    /\ TrialIdle

\* the steps of the program itself
RunExperiment ==
    \/ ShowInstructions \/ PracticeStart \/ PracticeCall \/ PracticeReturn
    \/ PracticeComplete \/ BlockHead \/ BlockCall \/ BlockReturn
    \/ BlockEnd \/ Completion \/ SaveTrialData \/ Cleanup
    \/ RunTrial

Next == RunExperiment \/ PressEscape

Spec == Init /\ [][Next]_vars

\* ------------------------------------------------------- the system clock
\* time.time() reads the system's wall clock. Time passes between two
\* readings, and the clock can be set back between them (an operator or a
\* time service adjusting it): a later reading can then be the lower one.
ClockAdvance ==
    /\ ~Terminated
    /\ clock < MaxClock
    /\ clock' = clock + 1
    /\ UNCHANGED <<config, pc, block_num, seq_idx, trial_sequence,
                   trial_data, key_buffer, output_file, n_saves, win_closes,
                   target_fill, events>>
    /\ UNCHANGED <<otherVars, genVars, trialVars>>

ClockSetBack ==
    /\ ~Terminated
    /\ clock' \in 0..(clock - 1)
    /\ UNCHANGED <<config, pc, block_num, seq_idx, trial_sequence,
                   trial_data, key_buffer, output_file, n_saves, win_closes,
                   target_fill, events>>
    /\ UNCHANGED <<otherVars, genVars, trialVars>>

\* a short session in which the clock runs
TimedPreset ==
    [n_practice_trials |-> 1, n_blocks |-> 1, n_trials_per_block |-> 2,
     error_rate |-> 50, show_target_reached |-> TRUE]

InitTime ==
    /\ GenIdle /\ CfgIdle /\ MainIdle /\ Task2Idle /\ MultiIdle
    /\ config = Merge(SmallPositions @@ FIXED_PARAMS, TimedPreset)
    /\ pc = "run_experiment"
    /\ block_num = 0 /\ seq_idx = 0 /\ trial_sequence = <<>>
    /\ trial_data = <<>> /\ key_buffer = FALSE /\ output_file = None
    /\ n_saves = 0 /\ win_closes = 0 /\ clock \in 0..MaxClock
    /\ experiment_start_time = clock
    /\ target_fill = config.target_color /\ events = <<>>
    /\ TrialIdle

NextTime == RunExperiment \/ ClockAdvance \/ ClockSetBack

SpecTime == InitTime /\ [][NextTime]_vars

\* ------------------------------------------------------- the written file
\* the column list with two position columns exchanged
fieldnames_Reordered ==
    <<"subject_id", "session_date", "session_num", "block_num", "trial_num",
      "trial_type", "error_type", "cursor_start", "target_position",
      "cursor_end", "movement_direction", "trial_start_time",
      "target_onset_time", "movement_onset_time", "movement_end_time",
      "trial_end_time", "response_key", "response_time">>

\* save_trial_data: fieldnames
fieldnames ==
    <<"subject_id", "session_date", "session_num", "block_num", "trial_num",
      "trial_type", "error_type", "target_position", "cursor_start",
      "cursor_end", "movement_direction", "trial_start_time",
      "target_onset_time", "movement_onset_time", "movement_end_time",
      "trial_end_time", "response_key", "response_time">>

Range(s) == {s[i] : i \in 1..Len(s)}

\* csv.DictWriter(f, fieldnames): a dict with a key that is no column makes
\* writerows raise ValueError; a column the dict lacks is written empty
RowAccepted(row) == DOMAIN row \subseteq Range(fieldnames)

CsvRow(row) ==
    [k \in Range(fieldnames) |-> IF k \in DOMAIN row THEN row[k] ELSE ""]

\* the file after writeheader() and writerows(rows)
CsvFile(rows) ==
    [header |-> fieldnames, rows |-> [i \in DOMAIN rows |-> CsvRow(rows[i])]]

\* the record run_trial returned is appended, whole, to the record list and
\* the list is handed to save_trial_data
SaveRecord ==
    /\ pc = "run_trial" /\ phase = "returned"
    /\ trial_data' = Append(trial_data, trial_info)
    /\ IF RowAccepted(trial_info)
       THEN /\ output_file' = CsvFile(trial_data')
            /\ pc' = "saved"
       ELSE /\ output_file' = CsvFile(<<>>)
            /\ pc' = "crashed"
    /\ n_saves' = n_saves + 1
    /\ UNCHANGED <<config, block_num, seq_idx, trial_sequence, key_buffer,
                   win_closes, clock, target_fill, events>>
    /\ UNCHANGED <<otherVars, genVars, trialVars>>

NextRecord == RunTrial \/ PressEscape \/ SaveRecord

\* one trial and the file written from its record
SpecRecord == InitTrial /\ [][NextRecord]_vars

\* ------------------------------------------------------------ the startup
MaxStartupPositions == 3   \* SpecStartup: n_positions in 0..this bound

\* configurations as the constructor can be handed them: position ranges and
\* start indices, well-formed ones and others
StartupConfigs ==
    {Merge([n_positions |-> n, start_position_idx |-> s] @@ FIXED_PARAMS,
           TimedPreset) :
        n \in 0..MaxStartupPositions, s \in (0 - 1)..MaxStartupPositions}

\* ObservationErrPExperiment(exp_info, config): the window, create_stimuli,
\* generate_positions, whose step usable_width / (n_positions - 1) raises
\* ZeroDivisionError for one position; nothing looks at the configuration
Construct ==
    /\ pc = "construct"
    /\ experiment_start_time' = get_unix_timestamp
    /\ target_fill' = config.target_color
    /\ pc' = IF config.n_positions = 1 THEN "crashed" ELSE "run_experiment"
    /\ UNCHANGED <<config, block_num, seq_idx, trial_sequence, trial_data,
                   key_buffer, output_file, n_saves, win_closes, clock,
                   events>>
    /\ UNCHANGED <<mainVars, cfgVars, genVars, trialVars, task2Vars, multiVars>>

InitStartup ==
    /\ GenIdle /\ CfgIdle /\ MainIdle /\ Task2Idle /\ MultiIdle
    /\ config \in StartupConfigs
    /\ pc = "construct"
    /\ block_num = 0 /\ seq_idx = 0 /\ trial_sequence = <<>>
    /\ trial_data = <<>> /\ key_buffer = FALSE /\ output_file = None
    /\ n_saves = 0 /\ win_closes = 0 /\ clock = 0
    /\ experiment_start_time = 0
    /\ target_fill = None /\ events = <<>>
    /\ TrialIdle

NextStartup == Construct \/ RunExperiment

SpecStartup == InitStartup /\ [][NextStartup]_vars

\* ---------------------------------------------------------- the resolver
MaxCalls == 3           \* SpecConfig: calls of get_config in one run

\* the names get_config is called with: the registered ones and others
CallNames == DOMAIN PRESETS \cup {"Debug", "nosuch"}

\* one call of get_config
GetConfig ==
    /\ Len(calls) < MaxCalls
    /\ \E preset \in CallNames :
          LET r == get_config(preset)
          IN  /\ calls' = Append(calls, [preset |-> preset] @@ r)
              /\ fixed_params' =
                    IF r.raised = None
                    THEN FixedAfterResolve(fixed_params, r.value)
                    ELSE fixed_params
    /\ UNCHANGED presets
    /\ UNCHANGED <<genVars, sessVars, trialVars, mainVars,
                   experiment_start_time, task2Vars, multiVars>>

InitConfig ==
    /\ presets = PRESETS /\ fixed_params = FIXED_PARAMS /\ calls = <<>>
    /\ GenIdle /\ SessIdle /\ TrialIdle /\ MainIdle /\ Task2Idle /\ MultiIdle

NextConfig == GetConfig

SpecConfig == InitConfig /\ [][NextConfig]_vars

\* ------------------------------------------------------- the main program
MaxArgs == 2            \* SpecMain: command line arguments, at most

\* what can stand on the command line: the names get_config is tried with
\* and the three spellings of the help request
CommandWords == CallNames \cup {"help", "--help", "-h"}

CommandLines ==
    {<<>>} \cup UNION {[1..k -> CommandWords] : k \in 1..MaxArgs}

\* the help request recognised in one spelling only
IsHelp_WordOnly(arg) == arg = "help"

\* if preset_name in ['help', '--help', '-h']
IsHelp(arg) == arg \in {"help", "--help", "-h"}

\* the order of PRESETS.items()
PresetOrder == <<"paper", "quick", "full", "debug", "v1_style">>

\* the choices of the dialog of select_preset
PresetChoices == {"quick", "paper", "full", "debug", "v1_style"}

\* if len(sys.argv) > 1: the first argument is the preset name; a help
\* request lists the presets (one get_config per preset) and quits
MainStart ==
    /\ pc = "main"
    /\ IF Len(argv) > 0
       THEN /\ preset_name' = argv[1]
            /\ IF IsHelp(argv[1])
               THEN /\ events' = Append(events, <<"list_presets", 0, 0>>)
                    /\ calls' = calls \o
                          [i \in 1..Len(PresetOrder) |->
                              [preset |-> PresetOrder[i]]
                                  @@ get_config(PresetOrder[i])]
                    /\ exit_status' = "success"
                    /\ pc' = "exited"
               ELSE /\ pc' = "get_config"
                    /\ UNCHANGED <<events, calls, exit_status>>
       ELSE /\ pc' = "select_preset"
            /\ UNCHANGED <<preset_name, events, calls, exit_status>>
    /\ UNCHANGED <<config, block_num, seq_idx, trial_sequence, trial_data,
                   key_buffer, output_file, n_saves, win_closes, clock,
                   target_fill>>
    /\ UNCHANGED <<presets, fixed_params, argv>>
    /\ UNCHANGED <<genVars, trialVars, experiment_start_time, task2Vars, multiVars>>

\* select_preset(): the dialog returns a choice, or the program quits
SelectPreset ==
    /\ pc = "select_preset"
    /\ events' = Append(events, <<"select_preset", 0, 0>>)
    /\ \/ \E choice \in PresetChoices :
             /\ preset_name' = choice
             /\ pc' = "get_config"
             /\ UNCHANGED exit_status
       \/ /\ exit_status' = "success"
          /\ pc' = "exited"
          /\ UNCHANGED preset_name
    /\ UNCHANGED <<config, block_num, seq_idx, trial_sequence, trial_data,
                   key_buffer, output_file, n_saves, win_closes, clock,
                   target_fill>>
    /\ UNCHANGED <<cfgVars, argv>>
    /\ UNCHANGED <<genVars, trialVars, experiment_start_time, task2Vars, multiVars>>

\* config = get_config(preset_name): an unknown name ends the program with
\* the uncaught ValueError; with a command line argument print_preset_info
\* resolves the preset once more
MainGetConfig ==
    /\ pc = "get_config"
    /\ LET r == get_config(preset_name)
           call == [preset |-> preset_name] @@ r
       IN  IF r.raised # None
           THEN /\ calls' = Append(calls, call)
                /\ exit_status' = "failure"
                /\ pc' = "exited"
                /\ UNCHANGED <<config, fixed_params, events>>
           ELSE /\ config' = r.value
                /\ fixed_params' = FixedAfterResolve(fixed_params, r.value)
                /\ IF Len(argv) > 0
                   THEN /\ calls' = calls \o <<call, call>>
                        /\ events' =
                              Append(events, <<"print_preset_info", 0, 0>>)
                   ELSE /\ calls' = Append(calls, call)
                        /\ UNCHANGED events
                /\ pc' = "get_subject_info"
                /\ UNCHANGED exit_status
    /\ UNCHANGED <<block_num, seq_idx, trial_sequence, trial_data,
                   key_buffer, output_file, n_saves, win_closes, clock,
                   target_fill>>
    /\ UNCHANGED <<presets, argv, preset_name>>
    /\ UNCHANGED <<genVars, trialVars, experiment_start_time, task2Vars, multiVars>>

\* get_subject_info(): the dialog is confirmed, or the program quits
GetSubjectInfo ==
    /\ pc = "get_subject_info"
    /\ events' = Append(events, <<"subject_dialog", 0, 0>>)
    /\ \/ /\ pc' = "construct"
          /\ UNCHANGED exit_status
       \/ /\ exit_status' = "success"
          /\ pc' = "exited"
    /\ UNCHANGED <<config, block_num, seq_idx, trial_sequence, trial_data,
                   key_buffer, output_file, n_saves, win_closes, clock,
                   target_fill>>
    /\ UNCHANGED <<cfgVars, argv, preset_name>>
    /\ UNCHANGED <<genVars, trialVars, experiment_start_time, task2Vars, multiVars>>

InitMain ==
    /\ GenIdle /\ TrialIdle /\ Task2Idle /\ MultiIdle
    /\ presets = PRESETS /\ fixed_params = FIXED_PARAMS /\ calls = <<>>
    /\ argv \in CommandLines
    /\ preset_name = None /\ exit_status = "none"
    /\ config = None /\ pc = "main"
    /\ block_num = 0 /\ seq_idx = 0 /\ trial_sequence = <<>>
    /\ trial_data = <<>> /\ key_buffer = FALSE /\ output_file = None
    /\ n_saves = 0 /\ win_closes = 0 /\ clock = 0
    /\ experiment_start_time = 0
    /\ target_fill = None /\ events = <<>>

\* the main program up to experiment.run_experiment()
NextMain ==
    MainStart \/ SelectPreset \/ MainGetConfig \/ GetSubjectInfo
    \/ Construct

SpecMain == InitMain /\ [][NextMain]_vars

\* ------------------------------------------- task2_feedback_errp.py
MaxTrials2 == 2         \* SpecTask2: trials of the session

\* N_TRIALS = 90 in the script; the sessions explored here are shorter
N_TRIALS == MaxTrials2

Task2Ended == t2pc \in {"done", "quit"}

\* the operator presses Escape while the script runs
PressEscape2 ==
    /\ t2pc # "idle" /\ ~Task2Ended
    /\ ~key_buffer
    /\ key_buffer' = TRUE
    /\ UNCHANGED win_closes
    /\ UNCHANGED task2Vars
    /\ UNCHANGED <<config, pc, block_num, seq_idx, trial_sequence,
                   trial_data, output_file, n_saves, clock, target_fill,
                   events>>
    /\ UNCHANGED <<genVars, trialVars, mainVars, cfgVars,
                   experiment_start_time, multiVars>>

\* win.close(); pygame.quit(); core.quit(): the script ends here
Task2Quit ==
    /\ win_closes' = win_closes + 1
    /\ key_buffer' = FALSE
    /\ t2pc' = "quit"

\* show_instructions(): every screen waits for the button and looks for
\* Escape
T2ShowInstructions ==
    /\ t2pc = "show_instructions"
    /\ IF key_buffer
       THEN Task2Quit
       ELSE t2pc' = "loop_head" /\ UNCHANGED <<key_buffer, win_closes>>
    /\ UNCHANGED <<trial_num, is_error_trial, results, log_file>>
    /\ UNCHANGED <<config, pc, block_num, seq_idx, trial_sequence,
                   trial_data, output_file, n_saves, clock, target_fill,
                   events>>
    /\ UNCHANGED <<genVars, trialVars, mainVars, cfgVars,
                   experiment_start_time, multiVars>>
    /\ UNCHANGED rotVars

\* for trial_num in range(N_TRIALS): if 'escape' in keys: break
T2LoopHead ==
    /\ t2pc = "loop_head"
    /\ IF trial_num >= N_TRIALS
       THEN t2pc' = "end_screen" /\ UNCHANGED key_buffer
       ELSE IF key_buffer
            THEN t2pc' = "end_screen" /\ key_buffer' = FALSE
            ELSE t2pc' = "wait_for_button" /\ UNCHANGED key_buffer
    /\ UNCHANGED <<trial_num, is_error_trial, results, log_file, win_closes>>
    /\ UNCHANGED <<config, pc, block_num, seq_idx, trial_sequence,
                   trial_data, output_file, n_saves, clock, target_fill,
                   events>>
    /\ UNCHANGED <<genVars, trialVars, mainVars, cfgVars,
                   experiment_start_time, multiVars>>
    /\ UNCHANGED rotVars

\* rotation_angle = random.choice(ROTATION_ANGLES) * random.choice([-1, 1])
RotationChoices ==
    {angle * sign : angle \in {20, 40, 60}, sign \in {0 - 1, 1}}

\* cursor_pos[0] = -0.7 or 0.7 by side, and target_pos[0] across from it
StartX(s) == IF s = "left" THEN 0 - 4 ELSE 4

\* boundary_x = cursor_pos[0] + (target_pos[0] - cursor_pos[0]) *
\* boundary_ratio with boundary_ratio in [0.30, 0.60]: from x = -0.28 to
\* 0.14 on the left, 0.28 to -0.14 on the right; the cells inside
BoundaryChoices(s) == IF s = "left" THEN {0 - 1, 0} ELSE {0, 1}

\* max(-0.95, min(0.95, cursor_pos[0]))
ClampX(x) == IF x > 5 THEN 5 ELSE IF x < 0 - 5 THEN 0 - 5 ELSE x

\* the cursor compared with the side of the boundary it started from
crossed_boundary_StartSide ==
    (cursor_x - boundary_x) * (StartX(side) - boundary_x) > 0

\* crossed_boundary = (cursor_pos[0] - boundary_x) *
\*                    (target_pos[0] - boundary_x) > 0
crossed_boundary ==
    (cursor_x - boundary_x) * (target_x - boundary_x) > 0

\* the trigger without its test of the trial type
RotationTrigger_AnyTrial == ~rotation_active /\ crossed_boundary

\* if is_error_trial and not rotation_active and crossed_boundary
RotationTrigger ==
    is_error_trial /\ ~rotation_active /\ crossed_boundary

\* trial_data as it is built after the success feedback, with the answer of
\* the questionnaire
TrialData(response) ==
    [trial |-> trial_num,
     is_error_trial |-> IF is_error_trial THEN 1 ELSE 0,
     rotation_angle |-> IF is_error_trial THEN rotation_angle ELSE 0,
     rotation_onset_time |->
         IF rotation_active THEN rotation_onset_time ELSE <<>>,
     perceived_rotation |-> response]

\* if not wait_for_button(): break; then the trial setup
T2WaitForButton ==
    /\ t2pc = "wait_for_button"
    /\ IF key_buffer
       THEN /\ t2pc' = "end_screen" /\ key_buffer' = FALSE
            /\ UNCHANGED <<is_error_trial, rotVars>>
       ELSE /\ is_error_trial' \in BOOLEAN
            /\ rotation_angle' \in
                  IF is_error_trial' THEN RotationChoices ELSE {0}
            /\ side' \in {"left", "right"}
            /\ cursor_x' = StartX(side')
            /\ target_x' = 0 - StartX(side')
            /\ boundary_x' \in BoundaryChoices(side')
            /\ rotation_active' = FALSE
            /\ rotation_onset_time' = <<>>
            /\ trajectory' = <<>>
            /\ t2pc' = "movement"
            /\ UNCHANGED key_buffer
    /\ UNCHANGED <<trial_num, results, log_file, win_closes>>
    /\ UNCHANGED <<config, pc, block_num, seq_idx, trial_sequence,
                   trial_data, output_file, n_saves, clock, target_fill,
                   events>>
    /\ UNCHANGED <<genVars, trialVars, mainVars, cfgVars,
                   experiment_start_time, multiVars>>

\* while not reached_target: the passes in which the input carries the
\* cursor from its cell, by at most one cell along the horizontal axis.
\* Escape ends the script; else the trigger is tested, the cursor moves,
\* the pass is recorded in the trajectory, and the loop ends if the cursor
\* is on the target
T2Movement ==
    /\ t2pc = "movement"
    /\ IF key_buffer
       THEN /\ Task2Quit
            /\ UNCHANGED rotVars
       ELSE /\ rotation_active' = (rotation_active \/ RotationTrigger)
            /\ rotation_onset_time' =
                  IF RotationTrigger THEN <<clock>> ELSE rotation_onset_time
            /\ \E dx \in {0 - 1, 0, 1} : cursor_x' = ClampX(cursor_x + dx)
            /\ trajectory' = <<[cursor_x |-> cursor_x',
                                rotation_active |-> rotation_active']>>
            /\ t2pc' = IF cursor_x' = target_x THEN "success"
                       ELSE "movement"
            /\ UNCHANGED <<key_buffer, win_closes, rotation_angle, side,
                           target_x, boundary_x>>
    /\ UNCHANGED <<trial_num, is_error_trial, results, log_file>>
    /\ UNCHANGED <<config, pc, block_num, seq_idx, trial_sequence,
                   trial_data, output_file, n_saves, clock, target_fill,
                   events>>
    /\ UNCHANGED <<genVars, trialVars, mainVars, cfgVars,
                   experiment_start_time, multiVars>>

\* the success feedback; trial_data is built; the questionnaire follows an
\* error trial
T2Success ==
    /\ t2pc = "success"
    /\ t2pc' = IF is_error_trial THEN "questionnaire" ELSE "append"
    /\ UNCHANGED <<trial_num, is_error_trial, results, log_file,
                   key_buffer, win_closes>>
    /\ UNCHANGED <<config, pc, block_num, seq_idx, trial_sequence,
                   trial_data, output_file, n_saves, clock, target_fill,
                   events>>
    /\ UNCHANGED <<genVars, trialVars, mainVars, cfgVars,
                   experiment_start_time, multiVars>>
    /\ UNCHANGED rotVars

\* show_questionnaire(): y, m or n answers; Escape without an answer ends
\* the script; getKeys takes the four keys out of the buffer
T2Questionnaire ==
    /\ t2pc = "questionnaire"
    /\ \/ \E response \in {"Yes", "Maybe", "No"} :
             /\ results' = Append(results, TrialData(response))
             /\ key_buffer' = FALSE
             /\ t2pc' = "iti"
             /\ UNCHANGED win_closes
       \/ /\ key_buffer
          /\ Task2Quit
          /\ UNCHANGED results
    /\ UNCHANGED <<trial_num, is_error_trial, log_file>>
    /\ UNCHANGED <<config, pc, block_num, seq_idx, trial_sequence,
                   trial_data, output_file, n_saves, clock, target_fill,
                   events>>
    /\ UNCHANGED <<genVars, trialVars, mainVars, cfgVars,
                   experiment_start_time, multiVars>>
    /\ UNCHANGED rotVars

\* results.append(trial_data) of a trial without questionnaire
T2Append ==
    /\ t2pc = "append"
    /\ results' = Append(results, TrialData(None))
    /\ t2pc' = "iti"
    /\ UNCHANGED <<trial_num, is_error_trial, log_file, key_buffer,
                   win_closes>>
    /\ UNCHANGED <<config, pc, block_num, seq_idx, trial_sequence,
                   trial_data, output_file, n_saves, clock, target_fill,
                   events>>
    /\ UNCHANGED <<genVars, trialVars, mainVars, cfgVars,
                   experiment_start_time, multiVars>>
    /\ UNCHANGED rotVars

\* the inter-trial interval; the for loop goes to its next trial_num
T2ITI ==
    /\ t2pc = "iti"
    /\ trial_num' = trial_num + 1
    /\ t2pc' = "loop_head"
    /\ UNCHANGED <<is_error_trial, results, log_file, key_buffer,
                   win_closes>>
    /\ UNCHANGED <<config, pc, block_num, seq_idx, trial_sequence,
                   trial_data, output_file, n_saves, clock, target_fill,
                   events>>
    /\ UNCHANGED <<genVars, trialVars, mainVars, cfgVars,
                   experiment_start_time, multiVars>>
    /\ UNCHANGED rotVars

\* the end screen, then with open(log_file, "w"): the rows of results
T2Save ==
    /\ t2pc = "end_screen"
    /\ log_file' = [written |-> TRUE, rows |-> results]
    /\ t2pc' = "cleanup"
    /\ UNCHANGED <<trial_num, is_error_trial, results, key_buffer,
                   win_closes>>
    /\ UNCHANGED <<config, pc, block_num, seq_idx, trial_sequence,
                   trial_data, output_file, n_saves, clock, target_fill,
                   events>>
    /\ UNCHANGED <<genVars, trialVars, mainVars, cfgVars,
                   experiment_start_time, multiVars>>
    /\ UNCHANGED rotVars

\* win.close(); pygame.quit(); core.quit() at the end of the script
T2Cleanup ==
    /\ t2pc = "cleanup"
    /\ win_closes' = win_closes + 1
    /\ t2pc' = "done"
    /\ UNCHANGED <<trial_num, is_error_trial, results, log_file, key_buffer>>
    /\ UNCHANGED <<config, pc, block_num, seq_idx, trial_sequence,
                   trial_data, output_file, n_saves, clock, target_fill,
                   events>>
    /\ UNCHANGED <<genVars, trialVars, mainVars, cfgVars,
                   experiment_start_time, multiVars>>
    /\ UNCHANGED rotVars

InitTask2 ==
    /\ GenIdle /\ SessIdle /\ TrialIdle /\ CfgIdle /\ MainIdle /\ MultiIdle
    /\ t2pc = "show_instructions" /\ trial_num = 0
    /\ is_error_trial = FALSE /\ results = <<>>
    /\ log_file = [written |-> FALSE, rows |-> <<>>]
    /\ RotIdle

NextTask2 ==
    \/ T2ShowInstructions \/ T2LoopHead \/ T2WaitForButton \/ T2Movement
    \/ T2Success \/ T2Questionnaire \/ T2Append \/ T2ITI \/ T2Save \/ T2Cleanup
    \/ PressEscape2

SpecTask2 == InitTask2 /\ [][NextTask2]_vars

\* ----------------------------------- the multi-step observation scripts
MaxEpisodes == 4        \* SpecMulti: trials or episodes of a run
MaxCounted == 2         \* SpecMulti: the highest count kept of the records

StepScripts == {"task1_observation_errp", "task1_v2"}
EpisodeScripts == {"task1_psychopy", "errp_game"}

N_POSITIONS == 20

\* N_TRIALS = 30, N_EPISODES = 10 in the scripts; the runs explored here
\* are shorter
Rounds == MaxEpisodes

\* min(range(len(positions)), key=lambda i: abs(positions[i])) over
\* positions[i] = -0.8 + i * (1.6 / 19) in floating point: index 10, whose
\* position 0.042105263157894646 is the smaller of the two nearest to zero
START_POSITION == 10

\* new_target of task1_observation_errp.py and task1_v2.py
new_target(cursor_pos) ==
    LET possible == {i \in 0..(N_POSITIONS - 1) : Abs(i - cursor_pos) >= 3}
    IN  IF possible # {} THEN possible
        ELSE {(cursor_pos + 5) % N_POSITIONS}

\* an offset that leaves the range stops at the edge
choose_new_target_Clamped(i) ==
    {Clamp(i + offset, N_POSITIONS) :
        offset \in {0 - 3, 0 - 2, 0 - 1, 1, 2, 3}}

\* choose_new_target of errp_game.py, new_target of task1_psychopy.py: what
\* the call can return
choose_new_target(i) ==
    {IF 0 <= i + offset /\ i + offset < N_POSITIONS
        THEN i + offset ELSE N_POSITIONS \div 2 :
        offset \in {0 - 3, 0 - 2, 0 - 1, 1, 2, 3}}

\* the direction away from b
direction_Reversed(a, b) == IF b > a THEN 0 - 1 ELSE IF b < a THEN 1 ELSE 0

\* direction(a, b): (b > a) - (b < a)
direction(a, b) == IF b > a THEN 1 ELSE IF b < a THEN 0 - 1 ELSE 0

Counted(n) == IF n < MaxCounted THEN n + 1 ELSE MaxCounted

\* the test of the movement loop: while cursor_idx != target_idx in the
\* trial scripts, while not reached in the episode scripts
LoopTest ==
    IF script \in StepScripts THEN cursor_idx # goal_idx ELSE ~reached

MultiFrame ==
    UNCHANGED <<genVars, sessVars, trialVars, mainVars, cfgVars,
                experiment_start_time, task2Vars>>

\* what runs before the for loop: errp_game sets cursor_idx and chooses the
\* first target; the PsychoPy scripts show their instruction screens
MStart ==
    /\ mpc = "start"
    /\ IF script = "errp_game"
       THEN /\ cursor_idx' = N_POSITIONS \div 2
            /\ goal_idx' \in choose_new_target(cursor_idx')
       ELSE UNCHANGED <<cursor_idx, goal_idx>>
    /\ mpc' = "for"
    /\ UNCHANGED <<script, ep, movements, reached, logged, last_record,
                   log_saved, streak>>
    /\ MultiFrame

\* the head of the for loop and what precedes the movement loop
MTrialHead ==
    /\ mpc = "for"
    /\ IF ep < Rounds
       THEN /\ mpc' = "while"
            /\ movements' = 0
            /\ streak' = 0
            /\ IF script \in StepScripts
               THEN /\ cursor_idx' = START_POSITION
                    /\ goal_idx' \in new_target(cursor_idx')
                    /\ UNCHANGED reached
               ELSE /\ reached' = FALSE
                    /\ IF script = "task1_psychopy"
                       THEN /\ cursor_idx' = N_POSITIONS \div 2
                            /\ goal_idx' \in choose_new_target(cursor_idx')
                       ELSE UNCHANGED <<cursor_idx, goal_idx>>
       ELSE /\ mpc' = "save"
            /\ UNCHANGED <<cursor_idx, goal_idx, movements, reached,
                           streak>>
    /\ UNCHANGED <<script, ep, logged, last_record, log_saved>>
    /\ MultiFrame

\* one pass of the movement loop: the move, correct or erroneous, and its
\* record
MMove(is_error) ==
    /\ mpc = "while" /\ LoopTest
    /\ LET d == direction(cursor_idx, goal_idx)
           move == IF is_error THEN 0 - d ELSE d
           new_idx == Clamp(cursor_idx + move, N_POSITIONS)
       IN  /\ cursor_idx' = new_idx
           /\ movements' = Counted(movements)
           /\ logged' = Counted(logged)
           /\ last_record' =
                IF script \in StepScripts
                THEN [trial |-> ep, movement |-> movements',
                      cursor_idx |-> new_idx, target_idx |-> goal_idx,
                      prev_cursor_idx |-> cursor_idx,
                      is_error |-> IF is_error THEN 1 ELSE 0,
                      movement_direction |->
                          IF new_idx > cursor_idx THEN "right" ELSE "left"]
                ELSE [episode |-> ep, cursor_idx |-> new_idx,
                      target_idx |-> goal_idx,
                      is_error |-> IF is_error THEN 1 ELSE 0]
           /\ reached' = IF script \in EpisodeScripts
                         THEN new_idx = goal_idx ELSE reached
    /\ streak' = IF is_error THEN 0
                 ELSE IF streak < N_POSITIONS - 1 THEN streak + 1
                 ELSE streak
    /\ UNCHANGED <<script, mpc, ep, goal_idx, log_saved>>
    /\ MultiFrame

\* a pass of the movement loop
MPass == \E is_error \in BOOLEAN : MMove(is_error)

\* the loop test fails: the trial scripts go to their success phase, the
\* episode scripts choose the next target and go to the next episode
MLoopExit ==
    /\ mpc = "while" /\ ~LoopTest
    /\ IF script \in StepScripts
       THEN /\ mpc' = "success"
            /\ UNCHANGED <<goal_idx, ep>>
       ELSE /\ goal_idx' \in choose_new_target(cursor_idx)
            /\ ep' = ep + 1
            /\ mpc' = "for"
    /\ UNCHANGED <<script, cursor_idx, movements, reached, logged,
                   last_record, log_saved, streak>>
    /\ MultiFrame

\* PHASE 3 and PHASE 4 of the trial scripts
MSuccess ==
    /\ mpc = "success"
    /\ ep' = ep + 1
    /\ mpc' = "for"
    /\ UNCHANGED <<script, cursor_idx, goal_idx, movements, reached,
                   logged, last_record, log_saved, streak>>
    /\ MultiFrame

\* Escape (or the window closed, in errp_game) is found at one of the
\* checks: the script ends without writing the log
MQuit ==
    /\ \/ mpc = "for" /\ ep < Rounds /\ script \in StepScripts
       \/ mpc = "while" /\ LoopTest
    /\ mpc' = "quit"
    /\ UNCHANGED <<script, ep, cursor_idx, goal_idx, movements, reached,
                   logged, last_record, log_saved, streak>>
    /\ MultiFrame

\* the log is written with the keys of results[0] as its header
MSave ==
    /\ mpc = "save"
    /\ IF logged = 0
       THEN mpc' = "crashed" /\ UNCHANGED log_saved
       ELSE mpc' = "done" /\ log_saved' = TRUE
    /\ UNCHANGED <<script, ep, cursor_idx, goal_idx, movements, reached,
                   logged, last_record, streak>>
    /\ MultiFrame

InitMulti ==
    /\ GenIdle /\ SessIdle /\ TrialIdle /\ CfgIdle /\ MainIdle /\ Task2Idle
    /\ script \in StepScripts \cup EpisodeScripts
    /\ mpc = "start" /\ ep = 0 /\ cursor_idx = None /\ goal_idx = None
    /\ movements = 0 /\ reached = FALSE /\ logged = 0
    /\ last_record = None /\ log_saved = FALSE /\ streak = 0

NextMulti ==
    \/ MStart \/ MTrialHead \/ MPass
    \/ MLoopExit \/ MSuccess \/ MQuit \/ MSave

SpecMulti == InitMulti /\ [][NextMulti]_vars

\* N_POSITIONS - 1 correct moves were drawn in a row, or no loop is running
LongCorrectRun ==
    ~(mpc = "while" /\ LoopTest) \/ streak >= N_POSITIONS - 1

\* the passes of a running loop follow one another, and is_error =
\* random.random() < ERROR_PROB is drawn afresh at every pass, whatever the
\* cursor's index: a loop that ran for ever would draw N_POSITIONS - 1
\* correct moves in a row again and again
SpecMultiFair ==
    /\ SpecMulti
    /\ WF_vars(MPass)
    /\ []<>LongCorrectRun

\* ================================================================= claims
Sign(x) == IF x > 0 THEN 1 ELSE IF x < 0 THEN 0 - 1 ELSE 0

\* Python's round(n * rate / 100): to the nearest, a tie to the even side
Round(n, rate) ==
    LET p == n * rate
        q == p \div 100
        r == p % 100
    IN  IF r > 50 THEN q + 1
        ELSE IF r < 50 THEN q
        ELSE IF q % 2 = 0 THEN q ELSE q + 1

\* seq has no run of more than k consecutive entries equal to v
NoRunLongerThan(seq, v, k) ==
    \A i \in 1..(Len(seq) - k) : \E j \in i..(i + k) : seq[j] # v

TrialRan ==
    phase \in {"animate", "post", "feedback", "reset", "end", "returned"}

\* C1: an abort detected after k completed trials still writes the output,
\* holding exactly the k completed records and no partial one.
C1_AbortWritesCompletedRecords ==
    pc = "quit" => output_file # None /\ output_file = trial_data

\* C2: every terminated run, completed or aborted, has flushed to the
\* persistence sink exactly once.
C2_ExactlyOneFlush ==
    pc \in {"done", "quit"} => n_saves = 1

\* C3: after a completed session the output holds n_practice_trials +
\* n_blocks * n_trials_per_block records, the practice ones with block
\* number 0 and the experimental ones with their block number.
C3_PracticeAndExperimentalRecords ==
    pc = "done" =>
        /\ output_file # None
        /\ Len(output_file) = config.n_practice_trials
                + config.n_blocks * config.n_trials_per_block
        /\ Cardinality({i \in DOMAIN output_file :
                            output_file[i].block_num = 0})
                = config.n_practice_trials
        /\ \A b \in 1..config.n_blocks :
               Cardinality({i \in DOMAIN output_file :
                                output_file[i].block_num = b})
                    = config.n_trials_per_block

\* C4: a sequence returned without the warning has no run of Error entries
\* longer than max_consec_errors and no run of Correct entries longer than
\* max_consec_correct.
C4_NoWarningNoLongRun ==
    (gpc = "done" /\ ~warned) =>
        /\ NoRunLongerThan(sequence, "error", max_consec_errors)
        /\ NoRunLongerThan(sequence, "correct", max_consec_correct)

C4_Witness ==
    /\ gpc = "done" /\ ~warned /\ attempts > 0
    /\ Count(sequence, "error") > 0 /\ Count(sequence, "correct") > 0

\* C5: the returned sequence holds exactly round(n_trials * error_rate)
\* Error entries and the remainder Correct entries.
C5_RoundedErrorCount ==
    gpc = "done" =>
        /\ Count(sequence, "error") = Round(n_trials, error_rate)
        /\ Count(sequence, "correct") = n_trials - Round(n_trials, error_rate)

\* C6: the generator terminates for every input: it never re-shuffles more
\* than max_attempts times, each loop iteration either ends the loop or
\* uses up one attempt, and with the budget used up it returns the current
\* sequence and reports the warning.
C6_TerminatesWithinBudget ==
    /\ [](attempts <= max_attempts)
    /\ [][gpc = "loop" /\ gpc' = "loop" =>
            valid' \/ attempts' = attempts + 1]_vars
    /\ [][gpc = "loop" /\ gpc' = "done" => sequence' = sequence]_vars
    /\ []((gpc = "done" /\ attempts = max_attempts) => warned)
    /\ <>(gpc = "done")

C6_Witness ==
    /\ gpc = "done" /\ warned /\ attempts = max_attempts
    /\ \A s \in Shuffle(sequence) :
           ~(/\ NoRunLongerThan(s, "error", max_consec_errors)
             /\ NoRunLongerThan(s, "correct", max_consec_correct))

\* C7: from its first shuffle to its return the sequence has length
\* n_trials, holds only Correct and Error entries, and holds as many of
\* each as the multiset it was built from.
C7_LengthAndCountsKept ==
    gpc \in {"loop", "done"} =>
        /\ DOMAIN sequence = 1..n_trials
        /\ \A i \in DOMAIN sequence : sequence[i] \in TrialTypes
        /\ \A v \in TrialTypes :
               Count(sequence, v)
                   = Count(InitialSequence(n_trials, error_rate), v)

C7_Witness ==
    /\ gpc = "done" /\ attempts >= 2 /\ n_trials >= 3
    /\ Count(sequence, "error") > 0 /\ Count(sequence, "correct") > 0

\* C8: when some index lies at distance >= min_distance from the start, the
\* target is one of those indices and every one of them can be chosen; for
\* start 10 of 20 positions the target is never in 8..12.
C8_TargetRespectsDistance ==
    phase \in {"movement", "animate", "post", "feedback", "reset", "end",
              "returned"} =>
        LET start == config.start_position_idx
            n == config.n_positions
            far == {i \in 0..(n - 1) : Abs(i - start) >= min_distance}
        IN  /\ far # {} => (target_idx \in far /\ possible_positions = far)
            /\ (start = 10 /\ n = 20) => target_idx \notin 8..12

C8_Witness ==
    /\ phase = "returned"
    /\ config.start_position_idx = 10 /\ config.n_positions = 20
    /\ target_idx = 13

\* C9 as stated: in every Error trial with target # start the end index
\* lies on the side of the start opposite to the target, also when the
\* start is at an edge of the range.
C9_ErrorAlwaysReversed ==
    (TrialRan /\ trial_info.trial_type = "error"
        /\ target_idx # config.start_position_idx) =>
        Sign(cursor_end_idx - config.start_position_idx)
            = 0 - Sign(target_idx - config.start_position_idx)

\* C9 amended: in every Error trial the recorded direction is the reverse
\* of the correct one; the end index is one step on the side opposite to
\* the target when that index is inside the range, and is the start index
\* itself when the start is at the edge that step would leave.
C9_ErrorReversedOrClamped ==
    (TrialRan /\ trial_info.trial_type = "error"
        /\ target_idx # config.start_position_idx) =>
        LET start == config.start_position_idx
            rev == start - Sign(target_idx - start)
        IN  /\ trial_info.movement_direction
                   = (IF target_idx > start THEN "left" ELSE "right")
            /\ IF rev \in 0..(config.n_positions - 1)
               THEN /\ cursor_end_idx = rev
                    /\ Sign(cursor_end_idx - start)
                           = 0 - Sign(target_idx - start)
               ELSE cursor_end_idx = start

C9_Witness ==
    /\ phase = "returned" /\ trial_info.trial_type = "error"
    /\ config.start_position_idx = 0 /\ config.n_positions >= 4
    /\ target_idx > 0 /\ cursor_end_idx = 0

\* C10: in every Correct trial the end index lies on the same side of the
\* start as the target.
C10_CorrectTowardsTarget ==
    (TrialRan /\ trial_info.trial_type = "correct") =>
        Sign(cursor_end_idx - config.start_position_idx)
            = Sign(target_idx - config.start_position_idx)

C10_Witness ==
    /\ phase = "returned" /\ trial_info.trial_type = "correct"
    /\ config.start_position_idx = config.n_positions - 1
    /\ cursor_end_idx = config.n_positions - 2


\* C11: in every trial the end index lies in [0, n_positions) and is the
\* start index or one step from it: one step in the executed direction,
\* clamped to the range.
C11_EndWithinOneStep ==
    TrialRan =>
        LET start == config.start_position_idx
            n == config.n_positions
            step == IF trial_info.movement_direction = "right"
                    THEN start + 1 ELSE start - 1
        IN  /\ cursor_end_idx \in 0..(n - 1)
            /\ Abs(cursor_end_idx - start) \in {0, 1}
            /\ cursor_end_idx = (IF step \in 0..(n - 1) THEN step ELSE start)

C11_Witness ==
    /\ phase = "returned" /\ trial_info.trial_type = "error"
    /\ config.start_position_idx = config.n_positions - 1
    /\ trial_info.movement_direction = "right"
    /\ cursor_end_idx = config.start_position_idx


\* the five phase timestamps of a trial record, in the order they are taken
TimeFields ==
    <<"trial_start_time", "target_onset_time", "movement_onset_time",
      "movement_end_time", "trial_end_time">>

\* C12: every record run_trial returns has its five phase timestamps set
\* and in order: trial start <= target onset <= movement onset <= movement
\* end <= trial end.
C12_TimestampsOrdered ==
    phase = "returned" =>
        /\ \A i \in 1..5 : TimeFields[i] \in DOMAIN trial_info
        /\ \A i \in 1..4 :
               trial_info[TimeFields[i]] <= trial_info[TimeFields[i + 1]]


\* C13: the record list mirrors the order of execution: every record in it
\* has its trial_end_time set, the list only grows at its end (no record is
\* moved or changed once appended), and of two consecutive records the
\* earlier one's trial_end_time is <= the later one's trial_start_time.
C13_RecordsInExecutionOrder ==
    /\ [](\A i \in DOMAIN trial_data :
             /\ "trial_end_time" \in DOMAIN trial_data[i]
             /\ i > 1 => trial_data[i - 1].trial_end_time
                             <= trial_data[i].trial_start_time)
    /\ [][\A i \in DOMAIN trial_data :
              i \in DOMAIN trial_data' /\ trial_data'[i] = trial_data[i]]_vars


\* the phase changes a trial may make, written from the order the phases are
\* listed in: start, inter-trial interval, target presentation, movement
\* (its onset, then its animation), post-movement hold, the optional
\* feedback (shown, then reset), end, returned
PhaseEdges ==
    {<<"start", "iti">>, <<"iti", "target">>, <<"target", "movement">>,
     <<"movement", "animate">>, <<"animate", "post">>,
     <<"post", "feedback">>, <<"post", "end">>, <<"feedback", "reset">>,
     <<"reset", "end">>, <<"end", "returned">>}

\* C14: a trial changes phase only along the fixed order inter-trial
\* interval, target presentation, movement, post-movement hold, so each is
\* passed once and none is skipped; the feedback phase is entered only from
\* the hold; the trial-end timestamp is absent until the last phase is over
\* and a returned trial carries the timestamp of every phase. A trial leaves
\* the order only by ending the run (abort at entry, failure of the target
\* choice).
C14_PhasesInFixedOrder ==
    /\ [][phase' # phase =>
            \/ <<phase, phase'>> \in PhaseEdges
            \/ phase \in {"start", "target"} /\ phase' = "idle"
                  /\ pc' \in {"quit", "crashed"}]_vars
    /\ [](phase \in {"iti", "target", "movement", "animate", "post",
                     "feedback", "reset", "end"} =>
            "trial_end_time" \notin DOMAIN trial_info)
    /\ [](phase = "returned" =>
            {"trial_start_time", "target_onset_time", "movement_onset_time",
             "movement_end_time", "trial_end_time"}
                \subseteq DOMAIN trial_info)

\* a trial that went through every phase, the feedback included, has returned
C14_Witness ==
    /\ phase = "returned"
    /\ config.show_target_reached /\ cursor_end_idx = target_idx

\* C15: an abort request waiting when a phase is about to begin stops the
\* trial: with Escape in the event buffer the trial enters none of the
\* phases inter-trial interval, target presentation, movement, post-movement
\* hold, feedback.
C15_AbortStopsBeforeNextPhase ==
    [][key_buffer =>
          \/ phase' = phase
          \/ phase' \notin {"iti", "target", "movement", "post",
                            "feedback"}]_vars

\* C16: the feedback phase is entered exactly when show_target_reached is
\* true and the end index equals the target index; the target has another
\* colour than target_color only while that feedback is shown, and has
\* target_color again when the trial returns.
C16_FeedbackIffReached ==
    /\ [][(phase = "post" /\ phase' # phase) =>
            (phase' = "feedback" <=>
                (config.show_target_reached
                    /\ cursor_end_idx = target_idx))]_vars
    /\ [](phase \in {"feedback", "reset"} =>
            (config.show_target_reached /\ cursor_end_idx = target_idx))
    /\ [](phase \in {"start", "iti", "target", "movement", "animate",
                     "post", "feedback", "end", "returned"} =>
            target_fill = config.target_color)
    /\ [](phase = "reset" => target_fill = config.target_reached_color)

\* the feedback is on the screen
C16_Witness ==
    /\ phase = "reset"
    /\ target_fill = config.target_reached_color
    /\ cursor_end_idx = target_idx

\* the events of block b: its trials 1..n
TrialEvents(b, n) == [t \in 1..n |-> <<"trial", b, t>>]

\* a fresh sequence, the block start, every trial, a break unless b is last
BlockEvents(b, cfg) ==
    <<<<"sequence", b, 0>>, <<"block_start", b, 0>>>>
        \o TrialEvents(b, cfg.n_trials_per_block)
        \o (IF b < cfg.n_blocks THEN <<<<"break", b, 0>>>> ELSE <<>>)

RECURSIVE BlocksFrom(_, _)
BlocksFrom(b, cfg) ==
    IF b > cfg.n_blocks THEN <<>>
    ELSE BlockEvents(b, cfg) \o BlocksFrom(b + 1, cfg)

\* instructions, practice block 0 with one sequence, blocks 1..n_blocks,
\* completion
SessionOrder(cfg) ==
    <<<<"instructions", 0, 0>>, <<"practice_instructions", 0, 0>>,
      <<"sequence", 0, 0>>>>
        \o TrialEvents(0, cfg.n_practice_trials)
        \o <<<<"practice_complete", 0, 0>>>>
        \o BlocksFrom(1, cfg)
        \o <<<<"completion", 0, 0>>>>

\* C17: what a session has done so far is always an initial part of:
\* instructions, practice block 0 with one generated sequence, blocks
\* 1..n_blocks in increasing order, each with a fresh sequence and all its
\* trials and, exactly when b < n_blocks, a break after block b, then
\* completion; a session that is not aborted has done all of it, with
\* n_blocks - 1 breaks.
C17_SessionOrder ==
    LET order == SessionOrder(config)
    IN  /\ Len(events) <= Len(order)
        /\ events = SubSeq(order, 1, Len(events))
        /\ pc \in {"save", "cleanup", "done"} =>
              /\ events = order
              /\ Cardinality({i \in 1..Len(events) :
                                 events[i][1] = "break"})
                    = config.n_blocks - 1

\* a session of two blocks with practice trials has run to its end
C17_Witness ==
    /\ pc = "done"
    /\ config.n_blocks = 2 /\ config.n_practice_trials >= 1
    /\ Len(events) > 0 /\ events[Len(events)] = <<"completion", 0, 0>>


\* a configuration with fewer than two positions, a start index outside
\* [0, n_positions), or no index for the target
Malformed(cfg) ==
    \/ cfg.n_positions < 2
    \/ cfg.start_position_idx \notin 0..(cfg.n_positions - 1)
    \/ PossiblePositions(cfg.start_position_idx, cfg.n_positions,
                         min_distance) = {}

\* C18: a malformed configuration does not get past the startup: the run is
\* still constructing the experiment or has failed there, nothing has been
\* shown and no trial has begun.
C18_MalformedRejectedAtStartup ==
    Malformed(config) =>
        /\ pc \in {"construct", "crashed"}
        /\ phase = "idle" /\ events = <<>>


\* C19: a call of get_config with a name that is not a registered preset
\* raises the unknown-preset error and returns no configuration, and after
\* it the preset table and the fixed parameter table are as they were.
C19_UnknownPresetNoEffect ==
    /\ [](\A i \in 1..Len(calls) :
            calls[i].preset \notin DOMAIN PRESETS =>
                calls[i].raised = "ValueError")
    /\ [][(\E i \in 1..Len(calls') :
              i > Len(calls) /\ calls'[i].preset \notin DOMAIN PRESETS) =>
            (presets' = presets /\ fixed_params' = fixed_params)]_vars

\* an unknown name was asked for after a registered one
C19_Witness ==
    /\ Len(calls) >= 2
    /\ calls[1].preset = "debug" /\ calls[1].raised = None
    /\ calls[2].preset = "Debug" /\ calls[2].raised = "ValueError"

\* C20: two calls of get_config with the same registered name return the
\* same Configuration, whatever was asked for before and between them, and
\* the preset table and the fixed parameter table stay as loaded.
C20_ResolveIdempotent ==
    /\ \A i, j \in 1..Len(calls) :
          (calls[i].preset = calls[j].preset
              /\ calls[i].preset \in DOMAIN PRESETS) =>
                /\ calls[i].raised = None /\ calls[j].raised = None
                /\ calls[i].value = calls[j].value
    /\ presets = PRESETS
    /\ fixed_params = FIXED_PARAMS

\* the same preset resolved twice with another one resolved in between
C20_Witness ==
    /\ Len(calls) = 3
    /\ calls[1].preset = "debug" /\ calls[2].preset = "paper"
    /\ calls[3].preset = "debug"
    /\ calls[3].raised = None /\ calls[3].value.total_trials = 10


\* C21: every Configuration returned for a registered preset has
\* total_trials = n_blocks * n_trials_per_block, an error rate between 0 and
\* 1 (0 and 100 percent) and both run-length limits at least 1.
C21_ResolvedInvariants ==
    \A i \in 1..Len(calls) :
        calls[i].preset \in DOMAIN PRESETS =>
            /\ calls[i].raised = None
            /\ LET v == calls[i].value
               IN  /\ v.total_trials = v.n_blocks * v.n_trials_per_block
                   /\ 0 <= v.error_rate /\ v.error_rate <= 100
                   /\ v.max_consecutive_errors >= 1
                   /\ v.max_consecutive_correct >= 1

\* a preset of several blocks has been resolved
C21_Witness ==
    \E i \in 1..Len(calls) :
        /\ calls[i].preset = "full" /\ calls[i].raised = None
        /\ calls[i].value.total_trials = 240

\* the names of the derived values get_config adds
DerivedNames == {"total_trials", "estimated_duration_minutes"}

\* C22: a Configuration returned for a registered preset has, for every
\* name the preset defines, the preset's value, and for every other name of
\* the fixed table, the table's value; it has no names but these and the two
\* derived ones, and any two resolved presets have the same names.
C22_PresetOverridesFixed ==
    /\ \A i \in 1..Len(calls) :
          calls[i].preset \in DOMAIN PRESETS =>
              LET v == calls[i].value
                  p == PRESETS[calls[i].preset]
              IN  /\ \A k \in DOMAIN p : v[k] = p[k]
                  /\ \A k \in DOMAIN FIXED_PARAMS \ DOMAIN p :
                        v[k] = FIXED_PARAMS[k]
                  /\ DOMAIN v = DOMAIN FIXED_PARAMS \cup DOMAIN p
                                    \cup DerivedNames
    /\ \A i, j \in 1..Len(calls) :
          (calls[i].raised = None /\ calls[j].raised = None) =>
              DOMAIN calls[i].value = DOMAIN calls[j].value

\* two different presets have been resolved
C22_Witness ==
    /\ Len(calls) >= 2
    /\ calls[1].preset = "debug" /\ calls[2].preset = "v1_style"
    /\ calls[1].value.n_blocks = 1 /\ calls[2].value.n_blocks = 2
    /\ calls[1].value.n_positions = 20


\* C23: with help, --help or -h as first argument the program lists the
\* presets and exits with success, and no dialog, window or stimulus exists
\* and no trial runs; with any other first argument that is not a registered
\* preset it ends in failure before the subject dialog and the window; with
\* no argument the first thing shown is the preset selection, and the
\* program goes on only with a preset chosen there.
C23_CommandLine ==
    /\ (Len(argv) > 0 /\ argv[1] \in {"help", "--help", "-h"}) =>
          /\ pc \in {"main", "exited"}
          /\ target_fill = None /\ phase = "idle"
          /\ pc = "exited" =>
                (exit_status = "success"
                    /\ events = <<<<"list_presets", 0, 0>>>>)
    /\ (Len(argv) > 0
          /\ argv[1] \notin {"help", "--help", "-h"} \cup DOMAIN PRESETS) =>
          /\ pc \in {"main", "get_config", "exited"}
          /\ target_fill = None /\ phase = "idle" /\ events = <<>>
          /\ pc = "exited" => exit_status = "failure"
    /\ (Len(argv) = 0 /\ pc \notin {"main", "select_preset"}) =>
          /\ events # <<>> /\ events[1] = <<"select_preset", 0, 0>>
          /\ pc # "exited" => preset_name \in DOMAIN PRESETS

\* the short help request has been served
C23_Witness ==
    /\ argv = <<"-h">> /\ pc = "exited" /\ exit_status = "success"


\* the columns in the required order: subject id, session date, session
\* number, block number, trial number, trial type, error type, target
\* position, cursor start, cursor end, movement direction, the five phase
\* timestamps, response key, response time
RequiredColumns ==
    <<"subject_id", "session_date", "session_num", "block_num", "trial_num",
      "trial_type", "error_type", "target_position", "cursor_start",
      "cursor_end", "movement_direction", "trial_start_time",
      "target_onset_time", "movement_onset_time", "movement_end_time",
      "trial_end_time", "response_key", "response_time">>

\* C24: every record in the list handed to save_trial_data has exactly the
\* 18 required fields, and the file written from it has the required
\* columns in the required order, with every row carrying its record's
\* values.
C24_RecordFieldsAndColumns ==
    /\ Len(RequiredColumns) = 18
    /\ \A i \in 1..Len(trial_data) :
          /\ DOMAIN trial_data[i] = {RequiredColumns[j] : j \in 1..18}
          /\ Cardinality(DOMAIN trial_data[i]) = 18
    /\ n_saves > 0 =>
          /\ pc = "saved"
          /\ output_file.header = RequiredColumns
          /\ Len(output_file.rows) = Len(trial_data)
          /\ \A i \in 1..Len(trial_data) :
                \A j \in 1..18 :
                    output_file.rows[i][RequiredColumns[j]]
                        = trial_data[i][RequiredColumns[j]]

\* the record of an Error trial has been written
C24_Witness ==
    /\ pc = "saved" /\ n_saves = 1
    /\ Len(trial_data) = 1 /\ trial_data[1].trial_type = "error"
    /\ trial_data[1].error_type = "opposite"


\* C25: on every exit path of the session, completion or abort, the window
\* has been closed exactly once and the output file has been opened, written
\* and closed exactly once (save_trial_data holds the file only inside its
\* with block); neither is ever closed a second time.
C25_ReleasedExactlyOnce ==
    /\ win_closes <= 1 /\ n_saves <= 1
    /\ pc \in {"done", "quit"} => (win_closes = 1 /\ n_saves = 1)


\* the phase change at which each of the five timestamps is stored
StampFrom == <<"start", "target", "movement", "animate", "end">>
StampTo == <<"iti", "movement", "animate", "post", "returned">>

C30_Task2AbortPreservesData ==
    Task2Ended => log_file.rows = results


\* C27: in a range of n_positions >= 2 with the start inside it, when no
\* index is min_distance or more from the start the target is chosen among
\* all indices except the start: it is in [0, n_positions) and is not the
\* start, and every such index can be chosen.
C27_FallbackExcludesStart ==
    phase \in {"movement", "animate", "post", "feedback", "reset", "end",
              "returned"} =>
        LET start == config.start_position_idx
            n == config.n_positions
        IN  (\A i \in 0..(n - 1) : Abs(i - start) < min_distance) =>
                /\ target_idx \in 0..(n - 1)
                /\ target_idx # start
                /\ possible_positions = (0..(n - 1)) \ {start}

\* five positions, start in the middle: the target is next to the start
C27_Witness ==
    /\ phase = "returned"
    /\ config.n_positions = 5 /\ config.start_position_idx = 2
    /\ target_idx = 1 /\ possible_positions = {0, 1, 3, 4}

\* C28: a returned record has error_type "opposite" exactly when its
\* trial_type is "error" and "none" exactly when it is "correct", and no
\* other subtype; in an Error trial the recorded movement_direction is the
\* reverse of the direction from the start to the target, in a Correct
\* trial it is that direction.
C28_OnlyOppositeErrors ==
    phase = "returned" =>
        LET towards == IF target_idx > config.start_position_idx
                       THEN "right" ELSE "left"
            away == IF towards = "right" THEN "left" ELSE "right"
        IN  /\ trial_info.trial_type \in {"error", "correct"}
            /\ trial_info.error_type \in {"opposite", "none"}
            /\ trial_info.error_type = "opposite"
                  <=> trial_info.trial_type = "error"
            /\ trial_info.error_type = "none"
                  <=> trial_info.trial_type = "correct"
            /\ trial_info.trial_type = "error" =>
                  trial_info.movement_direction = away
            /\ trial_info.trial_type = "correct" =>
                  trial_info.movement_direction = towards

\* an Error trial towards a target on the left has returned
C28_Witness ==
    /\ phase = "returned" /\ trial_info.trial_type = "error"
    /\ trial_info.error_type = "opposite"
    /\ target_idx < config.start_position_idx
    /\ trial_info.movement_direction = "right"


\* C29: for every registered preset, estimated_duration_minutes is
\* ((n_practice_trials + total_trials) * per_trial
\*    + (n_blocks - 1) * break_duration + 120) / 60,
\* per_trial being the mean of iti_min and iti_max plus target_presentation,
\* movement_duration and post_movement, plus target_reached_duration only
\* when show_target_reached is true. Here in milliseconds and doubled, as
\* a fraction over the doubled milliseconds of a minute.
C29_EstimatedDuration ==
    \A i \in 1..Len(calls) :
        calls[i].preset \in DOMAIN PRESETS =>
            LET v == calls[i].value
                per_trial2 ==
                    v.iti_min + v.iti_max
                    + 2 * v.target_presentation + 2 * v.movement_duration
                    + 2 * v.post_movement
                    + (IF v.show_target_reached
                       THEN 2 * v.target_reached_duration ELSE 0)
                seconds2 ==
                    (v.n_practice_trials + v.total_trials) * per_trial2
                    + 2 * (v.n_blocks - 1) * v.break_duration
                    + 2 * 120 * 1000
                est == v.estimated_duration_minutes
            IN  est[1] = seconds2 /\ est[2] = 2 * 60 * 1000

\* the debug preset, whose feedback phase counts, resolves to 2.4225
\* minutes (290700 / 120000)
C29_Witness ==
    \E i \in 1..Len(calls) :
        /\ calls[i].preset = "debug" /\ calls[i].raised = None
        /\ calls[i].value.show_target_reached
        /\ calls[i].value.estimated_duration_minutes = <<290700, 120000>>


\* what get_config returns for the registered preset p
Resolved(p) == WithDerived(Merge(FIXED_PARAMS, PRESETS[p]))

\* the position range and start index of some registered preset
PresetGeometry ==
    \E p \in DOMAIN PRESETS :
        /\ config.n_positions = Resolved(p).n_positions
        /\ config.start_position_idx = Resolved(p).start_position_idx

C32_WarningIffViolation ==
    gpc = "done" =>
        (warned <=>
            ~ (/\ NoRunLongerThan(sequence, "error", max_consec_errors)
               /\ NoRunLongerThan(sequence, "correct", max_consec_correct)))


\* C33: with n_positions >= 2 and the start index inside the range, the
\* target index chosen for a trial is an index of the range other than the
\* start index, so the correct direction is always defined: it is left
\* exactly when the target is strictly left of the start, and right exactly
\* when the target is strictly right of it.
C33_TargetNeverAtStart ==
    LET start == config.start_position_idx
        n == config.n_positions
    IN  /\ n >= 2 /\ start \in 0..(n - 1)
        /\ (phase = "movement" \/ TrialRan) =>
              /\ target_idx \in 0..(n - 1)
              /\ target_idx # start
        /\ TrialRan =>
              /\ correct_direction \in {"left", "right"}
              /\ correct_direction = "left" <=> target_idx < start
              /\ correct_direction = "right" <=> target_idx > start

\* the fallback chose the target, and the left branch was taken for it
C33_Witness ==
    /\ phase = "returned"
    /\ config.n_positions = 2 /\ config.start_position_idx = 1
    /\ target_idx = 0 /\ correct_direction = "left"


\* C34: the experimental records of the record list carry block numbers in
\* 1..n_blocks and trial numbers in 1..n_trials_per_block; the list starts at
\* block 1, trial 1, and each record follows the one before it either as the
\* next trial of the same block or as trial 1 of the next block after the
\* block's last trial; so the pairs (block_num, trial_num) strictly increase
\* along the list and no pair occurs twice.
C34_RecordsNumberedInOrder ==
    /\ \A i \in 1..Len(trial_data) :
          LET r == trial_data[i]
          IN  /\ r.block_num \in 1..config.n_blocks
              /\ r.trial_num \in 1..config.n_trials_per_block
              /\ IF i = 1
                 THEN r.block_num = 1 /\ r.trial_num = 1
                 ELSE LET q == trial_data[i - 1]
                      IN  \/ /\ r.block_num = q.block_num
                             /\ r.trial_num = q.trial_num + 1
                          \/ /\ r.block_num = q.block_num + 1
                             /\ r.trial_num = 1
                             /\ q.trial_num = config.n_trials_per_block
    /\ \A i \in 1..Len(trial_data) : \A j \in (i + 1)..Len(trial_data) :
          \/ trial_data[i].block_num < trial_data[j].block_num
          \/ /\ trial_data[i].block_num = trial_data[j].block_num
             /\ trial_data[i].trial_num < trial_data[j].trial_num

\* two blocks of two trials have been recorded after a practice block
C34_Witness ==
    /\ pc = "done" /\ config.n_practice_trials > 0
    /\ Len(trial_data) = 4
    /\ trial_data[3].block_num = 2 /\ trial_data[3].trial_num = 1


\* the movement loop is running / has ended with the cursor on the target
LoopRunning == mpc = "while" /\ LoopTest
LoopOver == mpc = "while" /\ ~LoopTest /\ cursor_idx = goal_idx

\* C35: in each of the multi-step scripts, a movement loop that is running
\* eventually ends with the cursor on the target, unless the run is aborted
\* from the keyboard, when the draw between a correct and an erroneous move
\* is fair.
C35_MovementLoopTerminates ==
    LoopRunning ~> (LoopOver \/ mpc = "quit")

\* a target one step away was reached after at least one erroneous move
C35_Witness ==
    /\ LoopOver /\ script = "task1_psychopy"
    /\ goal_idx = (N_POSITIONS \div 2) + 1
    /\ movements >= 2

\* C36: in every multi-step script the target in force when a movement loop
\* starts, and the target errp_game and task1_psychopy choose after an
\* episode, is an index of the range other than the cursor's index; every
\* trial or episode that ends has logged a movement record; the results
\* list is not empty when the log is written, and writing it never fails.
C36_TargetDiffersFromCursor ==
    /\ (\/ mpc = "while" /\ movements = 0
        \/ mpc = "for" /\ script \in EpisodeScripts
              /\ (ep > 0 \/ script = "errp_game")) =>
          /\ goal_idx \in 0..(N_POSITIONS - 1)
          /\ goal_idx # cursor_idx
    /\ (mpc = "success" \/ (mpc = "while" /\ ~LoopTest)) => movements >= 1
    /\ (mpc = "for" /\ ep > 0) =>
          /\ logged >= 1
          /\ IF script \in StepScripts
             THEN last_record.trial = ep - 1
             ELSE last_record.episode = ep - 1
    /\ mpc = "save" => logged >= 1
    /\ mpc # "crashed"
    /\ log_saved => logged >= 1

\* errp_game: the cursor was carried to the right end of the range and the
\* out-of-range fallback made the centre the target
C36_Witness ==
    /\ mpc = "while" /\ movements = 0 /\ script = "errp_game"
    /\ cursor_idx = N_POSITIONS - 1
    /\ goal_idx = N_POSITIONS \div 2

\* C37: in the multi-step scripts the cursor index stays in
\* [0, N_POSITIONS); a pass of the movement loop changes it by at most 1,
\* and by 0 only when the move is erroneous and the cursor is at an edge of
\* the range; the record of the pass holds the new index; the success phase
\* is entered only with the cursor index equal to the target index.
C37_CursorStaysInRange ==
    /\ [](mpc \in {"while", "success"} =>
            cursor_idx \in 0..(N_POSITIONS - 1))
    /\ [][(mpc = "while" /\ mpc' = "while") =>
            /\ Abs(cursor_idx' - cursor_idx) <= 1
            /\ last_record'.cursor_idx = cursor_idx'
            /\ cursor_idx' = cursor_idx =>
                  /\ last_record'.is_error = 1
                  /\ cursor_idx \in {0, N_POSITIONS - 1}]_vars
    /\ []((mpc \in {"while", "success"} /\ movements > 0
              /\ script \in StepScripts) =>
            /\ Abs(last_record.cursor_idx
                     - last_record.prev_cursor_idx) <= 1
            /\ last_record.cursor_idx = last_record.prev_cursor_idx =>
                  /\ last_record.is_error = 1
                  /\ last_record.cursor_idx \in {0, N_POSITIONS - 1})
    /\ [](mpc = "success" => cursor_idx = goal_idx)

\* an erroneous move at the left edge was logged with the index unchanged
C37_Witness ==
    /\ mpc = "while" /\ script \in StepScripts /\ movements > 0
    /\ last_record.is_error = 1
    /\ last_record.prev_cursor_idx = 0 /\ last_record.cursor_idx = 0


\* C38: in the feedback task the rotation flag is set, and the rotation
\* applied to a pass, only in error trials; the flag is set only in a pass
\* that starts with the cursor on the target's side of the rotation
\* boundary, and the onset time is taken in that pass; once set the flag
\* stays set until the next trial is set up; a record of a non-error trial
\* holds rotation_angle 0 and no onset time, a record of an error trial one
\* of the six signed angles; a record holds an onset time exactly when the
\* flag was set in its trial.
C38_RotationOnlyInErrorTrials ==
    /\ [](rotation_active => is_error_trial)
    /\ []((trajectory # <<>> /\ trajectory[1].rotation_active) =>
            is_error_trial)
    /\ [][(~rotation_active /\ rotation_active') =>
            /\ is_error_trial /\ t2pc = "movement"
            /\ \/ cursor_x > boundary_x /\ target_x > boundary_x
               \/ cursor_x < boundary_x /\ target_x < boundary_x
            /\ rotation_onset_time = <<>>
            /\ rotation_onset_time' = <<clock>>]_vars
    /\ [][(rotation_active /\ ~rotation_active') =>
            t2pc = "wait_for_button"]_vars
    /\ [](rotation_onset_time # <<>> <=> rotation_active)
    /\ [](\A i \in 1..Len(results) :
            IF results[i].is_error_trial = 0
            THEN /\ results[i].rotation_angle = 0
                 /\ results[i].rotation_onset_time = <<>>
            ELSE results[i].rotation_angle
                    \in {0 - 60, 0 - 40, 0 - 20, 20, 40, 60})
    /\ [][Len(results') > Len(results) =>
            (results'[Len(results')].rotation_onset_time # <<>>
                <=> rotation_active)]_vars

\* a non-error trial and an error trial whose rotation set in are logged
C38_Witness ==
    /\ Len(results) = 2
    /\ results[1].is_error_trial = 0
    /\ results[2].is_error_trial = 1
    /\ results[2].rotation_onset_time # <<>>
    /\ log_file.written

====
